---- MODULE Spec2Model ----
(***************************************************************************)
(* The VIL virtual machine of the Devil contract                           *)
(* (contracts/devil/src/program.rs) and the fixed-point Amount it computes *)
(* with (libs/deli/src/amount.rs), as a state machine.                     *)
(*                                                                         *)
(* A 128-bit or 256-bit unsigned integer is a sequence of base-1000 limbs, *)
(* least significant first, without a most significant zero limb (zero is  *)
(* the empty sequence): TLC's own integers are 32 bits wide, and the       *)
(* arithmetic of Amount is decided at 2^128 and 2^256.  Code words and     *)
(* labels are only compared and indexed, never computed with, and are      *)
(* plain naturals.                                                         *)
(***************************************************************************)
EXTENDS Integers, Sequences, FiniteSets, TLC

----------------------------------------------------------------------------
(* Unsigned integers wider than TLC's: base-1000 limbs.                    *)

Base == 1000

\* TLC evaluates a definition where it is first used, nested in whatever is
\* being evaluated there, and Java's stack bounds that nesting: additions
\* and subtractions find their carries by lookahead instead of by a ripple,
\* and sums and digit loops split their range in halves.  The one element
\* of {F(x) : x \in {v}} is F at the value of v, v evaluated before F.

\* s without its most significant zero limbs.
Norm(s) ==
    LET nz == {i \in 1..Len(s) : s[i] # 0}
    IN  IF nz = {} THEN << >>
        ELSE SubSeq(s, 1, CHOOSE i \in nz : \A j \in nz : j <= i)

\* The limbs of a natural number below 2^31.
ToLimbs(n) == Norm([i \in 1..4 |-> (n \div Base^(i - 1)) % Base])

Limb(a, i) == IF i <= Len(a) THEN a[i] ELSE 0

\* Ordering of two limb numbers: -1, 0 or 1 (Ordering::Less, Equal, Greater).
LCmp(a, b) ==
    IF Len(a) < Len(b) THEN -1
    ELSE IF Len(a) > Len(b) THEN 1
    ELSE LET diff == {i \in 1..Len(a) : a[i] # b[i]}
         IN  IF diff = {} THEN 0
             ELSE IF LET top == CHOOSE i \in diff : \A j \in diff : j <= i
                     IN  a[top] < b[top]
             THEN -1 ELSE 1

LLe(a, b) == LCmp(a, b) <= 0

\* a + b carries into limb k: a limb below k overflows and every limb
\* between is full.
LCarries(a, b, k) ==
    \E j \in 1..(k - 1) :
        /\ Limb(a, j) + Limb(b, j) >= Base
        /\ \A m \in (j + 1)..(k - 1) : Limb(a, m) + Limb(b, m) = Base - 1

LAdd(a, b) ==
    Norm([k \in 1..((IF Len(a) > Len(b) THEN Len(a) ELSE Len(b)) + 1) |->
            (Limb(a, k) + Limb(b, k) + (IF LCarries(a, b, k) THEN 1 ELSE 0)) % Base])

\* a - b borrows from limb k.
LBorrows(a, b, k) ==
    \E j \in 1..(k - 1) :
        /\ Limb(a, j) < Limb(b, j)
        /\ \A m \in (j + 1)..(k - 1) : Limb(a, m) = Limb(b, m)

\* a - b for a >= b.
LSub(a, b) ==
    Norm([k \in 1..Len(a) |->
            (Base + Limb(a, k) - Limb(b, k) - (IF LBorrows(a, b, k) THEN 1 ELSE 0)) % Base])

\* a * Base^n.
LShift(a, n) == IF a = << >> THEN a ELSE [i \in 1..n |-> 0] \o a

\* a * d for one limb d: the low and the high limbs of the products a[i] * d.
LMulSmall(a, d) ==
    LAdd([i \in 1..Len(a) |-> (a[i] * d) % Base],
         <<0>> \o [i \in 1..Len(a) |-> (a[i] * d) \div Base])

\* The sum of a[i] * b[k + 1 - i] for i in lo..hi: a part of the k-th column
\* of the schoolbook product.
RECURSIVE LColumn(_, _, _, _, _)
LColumn(a, b, k, lo, hi) ==
    IF lo > hi THEN 0
    ELSE IF lo = hi THEN a[lo] * b[k + 1 - lo]
    ELSE LColumn(a, b, k, lo, (lo + hi) \div 2)
         + LColumn(a, b, k, (lo + hi) \div 2 + 1, hi)

\* The columns of the product, each one below Base^3 (numbers below 2^256
\* have at most 26 limbs), and their three limbs added up.
LColumns(a, b) ==
    [k \in 1..(Len(a) + Len(b) - 1) |->
        LColumn(a, b, k, IF k + 1 - Len(b) > 1 THEN k + 1 - Len(b) ELSE 1,
                         IF k < Len(a) THEN k ELSE Len(a))]

LSpread(c) ==
    LAdd(LAdd([k \in 1..Len(c) |-> c[k] % Base],
              <<0>> \o [k \in 1..Len(c) |-> (c[k] \div Base) % Base]),
         <<0, 0>> \o [k \in 1..Len(c) |-> c[k] \div (Base * Base)])

LMul(a, b) ==
    IF a = << >> \/ b = << >> THEN << >> ELSE LSpread(LColumns(a, b))

\* The number made of the limbs of a above limb p: below 2^31 when it has
\* three limbs, or a fourth that is 1.
LTop(a, p) ==
    Limb(a, p + 1) + Base * Limb(a, p + 2) + Base * Base * Limb(a, p + 3)
    + Base * Base * Base * Limb(a, p + 4)

\* The limbs of b below its two leading ones.
LBelow(b) == IF Len(b) > 2 THEN Len(b) - 2 ELSE 0

\* Bounds on the quotient of r by b # 0 from the leading limbs of both, for
\* r < 2 * Base * b; they are the quotient itself when b has no other limbs.
LQuotLow(r, b) ==
    LTop(r, LBelow(b)) \div (LTop(b, LBelow(b)) + (IF LBelow(b) = 0 THEN 0 ELSE 1))
LQuotHigh(r, b) ==
    (LTop(r, LBelow(b)) + (IF LBelow(b) = 0 THEN 0 ELSE 1)) \div LTop(b, LBelow(b))

LimbMin(x) == IF x < Base - 1 THEN x ELSE Base - 1

\* The limb d with d * b <= r < (d + 1) * b, for r < Base * b.
LDigit(r, b) ==
    CHOOSE d \in LQuotLow(r, b)..LimbMin(LQuotHigh(r, b)) :
        /\ LLe(LMulSmall(b, d), r)
        /\ d = Base - 1 \/ ~LLe(LMulSmall(b, d + 1), r)

\* One step of long division: the remainder r of the limbs above with one
\* more limb below it, divided by b.
LDivLimb(rr, b, d) == [q |-> <<d>>, r |-> LSub(rr, LMulSmall(b, d))]

\* Long division by b # 0 of the limbs lo..hi of n below a remainder r of
\* the limbs above them: [q |-> the quotient's limbs lo..hi, r |-> the
\* remainder].  The upper half is divided first.
RECURSIVE LDivRange(_, _, _, _, _)
LDivRange(n, b, lo, hi, r) ==
    IF lo = hi
    THEN CHOOSE y \in {LDivLimb(rr, b, LDigit(rr, b)) :
                       rr \in {Norm(<<n[lo]>> \o r)}} : TRUE
    ELSE CHOOSE y \in
           {LET low == LDivRange(n, b, lo, (lo + hi) \div 2, up.r)
            IN  [q |-> low.q \o up.q, r |-> low.r] :
            up \in {LDivRange(n, b, (lo + hi) \div 2 + 1, hi, r)}} : TRUE

\* The quotient of n by b # 0; by a power of the base it is the limbs above.
LDiv(n, b) ==
    IF n = << >> THEN << >>
    ELSE IF b = LShift(<<1>>, Len(b) - 1) THEN SubSeq(n, Len(b), Len(n))
    ELSE Norm(LDivRange(n, b, 1, Len(n), << >>).q)

\* The square root limb by limb, as the long division it resembles: with
\* root the limbs found so far and c what is left of n down to the next two
\* limbs, the next limb d is the largest with (2 * root * Base + d) * d <= c.
LRootTimes(root, d) == LMulSmall(Norm(<<d>> \o LAdd(root, root)), d)

LRootDigit(c, root) ==
    CHOOSE d \in LQuotLow(c, <<0>> \o LAdd(LAdd(root, root), <<1>>))
                 ..(IF root = << >> THEN Base - 1
                    ELSE LimbMin(LQuotHigh(c, <<0>> \o LAdd(root, root)))) :
        /\ LLe(LRootTimes(root, d), c)
        /\ d = Base - 1 \/ ~LLe(LRootTimes(root, d + 1), c)

LRootLimb(c, root, d) ==
    [root |-> Norm(<<d>> \o root), rem |-> LSub(c, LRootTimes(root, d))]

\* The limbs 2 * i - 1 and 2 * i of n for i in lo..hi taken into the root
\* and remainder up of the limbs above them.  The upper half goes first.
RECURSIVE LRootRange(_, _, _, _)
LRootRange(n, lo, hi, up) ==
    IF lo = hi
    THEN CHOOSE y \in {LRootLimb(c, up.root, LRootDigit(c, up.root)) :
                       c \in {Norm(<<n[2 * lo - 1], Limb(n, 2 * lo)>> \o up.rem)}} : TRUE
    ELSE CHOOSE y \in {LRootRange(n, lo, (lo + hi) \div 2, top) :
                       top \in {LRootRange(n, (lo + hi) \div 2 + 1, hi, up)}} : TRUE

\* The integer square root of n.
LSqrt(n) ==
    IF n = << >> THEN << >>
    ELSE LRootRange(n, 1, (Len(n) + 1) \div 2, [root |-> << >>, rem |-> << >>]).root

----------------------------------------------------------------------------
(* Amount: libs/deli/src/amount.rs                                         *)

\* u128::MAX = 2^128 - 1 and the modulus 2^256 of U256, as limbs.
U128Max == <<455, 211, 768, 431, 607, 374, 463, 463, 938, 920, 366, 282, 340>>
TwoPow256 ==
    <<936, 639, 129, 913, 7, 584, 457, 39, 564, 640, 665, 984, 269,
      853, 907, 687, 8, 985, 570, 423, 195, 316, 237, 89, 792, 115>>

\* Option<Amount>, and the panic of an arithmetic operator of U256.
Some(x)   == [tag |-> "Some", v |-> x]
NoneOpt   == [tag |-> "None", v |-> << >>]
Panicked  == [tag |-> "Panic", v |-> << >>]

\* Amount::SCALE = 10^18, Amount::ZERO, Amount::ONE.
SCALE == <<0, 0, 0, 0, 0, 0, 1>>
ZERO  == << >>
ONE   == SCALE
\* Amount::MAX, the seed of vmin.
MAX   == U128Max

from_u128_raw(value) == ToLimbs(value)

\* U256 arithmetic wraps modulo 2^256 (operands below 2^256).
U256Add(a, b) ==
    LET s == LAdd(a, b)
    IN  IF LCmp(s, TwoPow256) < 0 THEN s ELSE LSub(s, TwoPow256)
\* A variant the completeness of checked_sub tells from U256's wrapping
\* subtraction: the distance between the two values.
U256SubAbs(a, b) ==
    IF LLe(b, a) THEN LSub(a, b) ELSE LSub(b, a)
U256Sub(a, b) ==
    IF LLe(b, a) THEN LSub(a, b) ELSE LSub(TwoPow256, LSub(b, a))
\* The product of two values below 2^128 is below 2^256.
U256Mul(a, b) == LMul(a, b)

try_convert_to_u128(value) ==
    IF LLe(value, U128Max) THEN Some(value) ELSE NoneOpt

checked_add(self, rhs) == try_convert_to_u128(U256Add(self, rhs))

checked_sub(self, rhs) == try_convert_to_u128(U256Sub(self, rhs))

checked_mul(self, rhs) == try_convert_to_u128(LDiv(U256Mul(self, rhs), SCALE))

\* U256's division panics on a zero divisor.
checked_div(self, rhs) ==
    IF rhs = ZERO THEN Panicked
    ELSE try_convert_to_u128(LDiv(U256Mul(self, SCALE), rhs))

checked_sqrt(self) == try_convert_to_u128(LSqrt(U256Mul(self, SCALE)))

\* Ord of Amount (derived from u128).
amount_min(a, b) == IF LLe(a, b) THEN a ELSE b
amount_max(a, b) == IF LLe(a, b) THEN b ELSE a

----------------------------------------------------------------------------
(* Operands and the frame's Stack: contracts/devil/src/program.rs          *)

\* ErrorCode.
ErrorCodes ==
    {"StackUnderflow", "StackOverflow", "InvalidInstruction", "InvalidOperand",
     "NotFound", "OutOfRange", "NotAligned", "MathUnderflow", "MathOverflow"}

\* enum Operand.
OpNone       == [kind |-> "None",   v |-> << >>]
OpLabels(d)  == [kind |-> "Labels", v |-> d]
OpVector(d)  == [kind |-> "Vector", v |-> d]
OpScalar(x)  == [kind |-> "Scalar", v |-> x]
OpLabel(x)   == [kind |-> "Label",  v |-> x]

\* A variant the properties below tell from Err: one that takes TOS with it.
FailDropsTop(e, s) ==
    [res |-> e, st |-> [s EXCEPT !.stack = SubSeq(@, 1, Len(@) - 1)]]

\* Result<(), ErrorCode> of a method of Stack, with the Stack it leaves:
\* res is "Ok", an ErrorCode or "Panic".
Done(s)      == [res |-> "Ok", st |-> s]
Fail(e, s)   == [res |-> e, st |-> s]

\* Variants the properties below tell from the Stack: registers that begin
\* with a value, a checked_sub that stops at zero, a drain that hands the
\* operands over last first.
NewStackInUse(num_registers) ==
    [stack |-> << >>, registry |-> [i \in 1..num_registers |-> OpScalar(ZERO)]]

saturating_sub_len(len, count) ==
    Some(IF len >= count THEN len - count ELSE 0)

DrainReversed(seq, pos) ==
    [i \in 1..(Len(seq) - pos) |-> seq[Len(seq) + 1 - i]]

\* One more variant: a result pushed above TOS in place of overwriting it.
SetTopPushed(s, operand) == [s EXCEPT !.stack = Append(@, operand)]

\* Stack::new.
NewStack(num_registers) ==
    [stack |-> << >>, registry |-> [i \in 1..num_registers |-> OpNone]]

push(s, operand) == [s EXCEPT !.stack = Append(@, operand)]

\* len.checked_sub(count), the index the top count operands start at.
checked_sub_len(len, count) ==
    IF len >= count THEN Some(len - count) ELSE NoneOpt

\* Vec::drain(pos..): what stays and what is taken, pos 0-based.
Keep(seq, pos)  == SubSeq(seq, 1, pos)
Drain(seq, pos) == SubSeq(seq, pos + 1, Len(seq))

Top(s) == s.stack[Len(s.stack)]
SetTop(s, operand) == [s EXCEPT !.stack[Len(s.stack)] = operand]
Pop1(s) == [s EXCEPT !.stack = Keep(@, Len(@) - 1)]

\* Stack::get_stack_offset: the 0-based index of the first of the top count.
get_stack_offset(s, count) ==
    LET depth == Len(s.stack)
    IN  IF depth = 0 THEN [res |-> "StackUnderflow", idx |-> 0]
        ELSE IF depth < count THEN [res |-> "StackUnderflow", idx |-> 0]
        ELSE [res |-> "Ok", idx |-> depth - count]

\* Stack::get_stack_index: the 0-based index of the operand at depth pos.
get_stack_index(s, pos) ==
    LET depth == Len(s.stack)
    IN  IF depth = 0 THEN [res |-> "StackUnderflow", idx |-> 0]
        ELSE IF depth - 1 < pos THEN [res |-> "StackUnderflow", idx |-> 0]
        ELSE [res |-> "Ok", idx |-> depth - 1 - pos]

ldd(s, pos) ==
    LET i == get_stack_index(s, pos)
    IN  IF i.res # "Ok" THEN Fail(i.res, s)
        ELSE Done(push(s, s.stack[i.idx + 1]))

ldr(s, pos) ==
    IF pos >= Len(s.registry) THEN Fail("OutOfRange", s)
    ELSE Done(push(s, s.registry[pos + 1]))

\* A variant of op_str that pops before it looks for the register.
op_str_pops_first(s, pos) ==
    IF s.stack = << >> THEN Fail("StackUnderflow", s)
    ELSE IF pos >= Len(s.registry) THEN Fail("OutOfRange", Pop1(s))
    ELSE Done([stack |-> Keep(s.stack, Len(s.stack) - 1),
               registry |-> [s.registry EXCEPT ![pos + 1] = Top(s)]])

\* Stack::op_str.
op_str(s, pos) ==
    IF pos >= Len(s.registry) THEN Fail("OutOfRange", s)
    ELSE IF s.stack = << >> THEN Fail("StackUnderflow", s)
    ELSE Done([stack |-> Keep(s.stack, Len(s.stack) - 1),
               registry |-> [s.registry EXCEPT ![pos + 1] = Top(s)]])

AllKind(seq, kind) == \A i \in 1..Len(seq) : seq[i].kind = kind
Values(seq) == [i \in 1..Len(seq) |-> seq[i].v]

\* pkv and pkl: the drained operands are gone also when one of them is
\* refused.
pack(s, count, atom, made) ==
    LET o == get_stack_offset(s, count)
    IN  IF o.res # "Ok" THEN Fail(o.res, s)
        ELSE LET taken == Drain(s.stack, o.idx)
                 rest  == [s EXCEPT !.stack = Keep(@, o.idx)]
             IN  IF ~AllKind(taken, atom) THEN Fail("InvalidOperand", rest)
                 ELSE Done(push(rest, [kind |-> made, v |-> Values(taken)]))

pkv(s, count) == pack(s, count, "Scalar", "Vector")

pkl(s, count) == pack(s, count, "Label", "Labels")

\* A variant of unpk that pushes the last element first.
unpk_last_first(s) ==
    IF s.stack = << >> THEN Fail("StackUnderflow", s)
    ELSE LET v    == Top(s)
             rest == Pop1(s)
             k    == Len(v.v)
         IN  IF v.kind = "Vector"
             THEN Done([rest EXCEPT !.stack =
                        @ \o [i \in 1..k |-> OpScalar(v.v[k + 1 - i])]])
             ELSE IF v.kind = "Labels"
             THEN Done([rest EXCEPT !.stack =
                        @ \o [i \in 1..k |-> OpLabel(v.v[k + 1 - i])]])
             ELSE Fail("InvalidOperand", rest)

\* Stack::unpk.
unpk(s) ==
    IF s.stack = << >> THEN Fail("StackUnderflow", s)
    ELSE LET v    == Top(s)
             rest == Pop1(s)
         IN  IF v.kind = "Vector"
             THEN Done([rest EXCEPT !.stack =
                        @ \o [i \in 1..Len(v.v) |-> OpScalar(v.v[i])]])
             ELSE IF v.kind = "Labels"
             THEN Done([rest EXCEPT !.stack =
                        @ \o [i \in 1..Len(v.v) |-> OpLabel(v.v[i])]])
             ELSE Fail("InvalidOperand", rest)

\* A variant of transpose that pushes the last row first.
transpose_last_row_first(s, count) ==
    IF count = 0 THEN Fail("InvalidOperand", s)
    ELSE IF count = 1 THEN unpk(s)
    ELSE LET o == get_stack_offset(s, count)
         IN  IF o.res # "Ok" THEN Fail(o.res, s)
             ELSE LET taken    == Drain(s.stack, o.idx)
                      rest     == [s EXCEPT !.stack = Keep(@, o.idx)]
                      vectors  == Values(taken)
                      num_rows == Len(vectors[1])
                  IN  IF ~AllKind(taken, "Vector") THEN Fail("InvalidOperand", rest)
                      ELSE IF \E c \in 1..count : Len(vectors[c]) # num_rows
                      THEN Fail("InvalidOperand", rest)
                      ELSE Done([rest EXCEPT !.stack = @ \o
                                 [row \in 1..num_rows |->
                                  OpVector([col \in 1..count |->
                                            vectors[col][num_rows + 1 - row]])]])

\* Stack::transpose: count Vectors taken as columns, their rows pushed.
transpose(s, count) ==
    IF count = 0 THEN Fail("InvalidOperand", s)
    ELSE IF count = 1 THEN unpk(s)
    ELSE LET o == get_stack_offset(s, count)
         IN  IF o.res # "Ok" THEN Fail(o.res, s)
             ELSE LET taken    == Drain(s.stack, o.idx)
                      rest     == [s EXCEPT !.stack = Keep(@, o.idx)]
                      vectors  == Values(taken)
                      num_rows == Len(vectors[1])
                  IN  IF ~AllKind(taken, "Vector") THEN Fail("InvalidOperand", rest)
                      ELSE IF \E c \in 1..count : Len(vectors[c]) # num_rows
                      THEN Fail("InvalidOperand", rest)
                      ELSE Done([rest EXCEPT !.stack = @ \o
                                 [row \in 1..num_rows |->
                                  OpVector([col \in 1..count |-> vectors[col][row]])]])

\* One checked primitive of Amount, by name.
checked(op, a, b) ==
    CASE op = "add" -> checked_add(a, b)
      [] op = "sub" -> checked_sub(a, b)
      [] op = "mul" -> checked_mul(a, b)
      [] op = "div" -> checked_div(a, b)

\* The loop "for i in 0..v1.data.len() { *x1 = x1.checked_op(x2)? }": the
\* elements before the failing one have been overwritten.
RECURSIVE ZipFrom(_, _, _, _)
ZipFrom(op, v1, v2, i) ==
    IF i > Len(v1) THEN Some(v1)
    ELSE LET r == checked(op, v1[i], v2[i])
         IN  IF r.tag # "Some" THEN [tag |-> r.tag, v |-> v1]
             ELSE ZipFrom(op, [v1 EXCEPT ![i] = r.v], v2, i + 1)

Fill(n, x) == [i \in 1..n |-> x]

\* TOS overwritten with the outcome r of a loop that made TOS a `made`.
Overwrite(s, made, r, err) ==
    LET t == SetTop(s, [kind |-> made, v |-> r.v])
    IN  IF r.tag = "Some" THEN Done(t)
        ELSE IF r.tag = "Panic" THEN Fail("Panic", t)
        ELSE Fail(err, t)

\* The pos == 0 arm of add and mul.
selfop(s, op, err) ==
    IF s.stack = << >> THEN Fail("StackUnderflow", s)
    ELSE LET v1 == Top(s)
         IN  IF v1.kind = "Vector"
             THEN Overwrite(s, "Vector", ZipFrom(op, v1.v, v1.v, 1), err)
             ELSE IF v1.kind = "Scalar"
             THEN LET r == checked(op, v1.v, v1.v)
                  IN  IF r.tag = "Some" THEN Done(SetTop(s, OpScalar(r.v)))
                      ELSE IF r.tag = "Panic" THEN Fail("Panic", s)
                      ELSE Fail(err, s)
             ELSE Fail("InvalidOperand", s)

\* The pos == 0 arm of sub and div: TOS is set to a constant.
selfset(s, c) ==
    IF s.stack = << >> THEN Fail("StackUnderflow", s)
    ELSE LET v1 == Top(s)
         IN  IF v1.kind = "Vector"
             THEN Done(SetTop(s, OpVector(Fill(Len(v1.v), c))))
             ELSE IF v1.kind = "Scalar" THEN Done(SetTop(s, OpScalar(c)))
             ELSE Fail("InvalidOperand", s)

\* The pos > 0 arm of add, sub, mul and div, with the ErrorCode each of its
\* three match arms gives a failed checked primitive.
binop(s, pos, op, errVV, errVS, errSS) ==
    LET i == get_stack_index(s, pos)
    IN  IF i.res # "Ok" THEN Fail(i.res, s)
        ELSE IF i.idx >= Len(s.stack) - 1 THEN Fail("OutOfRange", s)
        ELSE LET v1 == Top(s)
                 v2 == s.stack[i.idx + 1]
             IN  IF v1.kind = "Vector" /\ v2.kind = "Vector"
                 THEN IF Len(v1.v) # Len(v2.v) THEN Fail("NotAligned", s)
                      ELSE Overwrite(s, "Vector", ZipFrom(op, v1.v, v2.v, 1), errVV)
                 ELSE IF v1.kind = "Vector" /\ v2.kind = "Scalar"
                 THEN Overwrite(s, "Vector",
                                ZipFrom(op, v1.v, Fill(Len(v1.v), v2.v), 1), errVS)
                 ELSE IF v1.kind = "Scalar" /\ v2.kind = "Scalar"
                 THEN LET r == checked(op, v1.v, v2.v)
                      IN  IF r.tag = "Some" THEN Done(SetTop(s, OpScalar(r.v)))
                          ELSE IF r.tag = "Panic" THEN Fail("Panic", s)
                          ELSE Fail(errSS, s)
                 ELSE Fail("InvalidOperand", s)

add(s, pos) ==
    IF pos = 0 THEN selfop(s, "add", "MathOverflow")
    ELSE binop(s, pos, "add", "MathOverflow", "MathOverflow", "MathOverflow")

sub(s, pos) ==
    IF pos = 0 THEN selfset(s, ZERO)
    ELSE binop(s, pos, "sub", "MathUnderflow", "MathOverflow", "MathOverflow")

mul(s, pos) ==
    IF pos = 0 THEN selfop(s, "mul", "MathOverflow")
    ELSE binop(s, pos, "mul", "MathOverflow", "MathOverflow", "MathOverflow")

div(s, pos) ==
    IF pos = 0 THEN selfset(s, ONE)
    ELSE binop(s, pos, "div", "MathOverflow", "MathOverflow", "MathOverflow")

RECURSIVE SqrtFrom(_, _)
SqrtFrom(v, i) ==
    IF i > Len(v) THEN Some(v)
    ELSE LET r == checked_sqrt(v[i])
         IN  IF r.tag # "Some" THEN [tag |-> r.tag, v |-> v]
             ELSE SqrtFrom([v EXCEPT ![i] = r.v], i + 1)

sqrt(s) ==
    IF s.stack = << >> THEN Fail("StackUnderflow", s)
    ELSE LET v1 == Top(s)
         IN  IF v1.kind = "Vector"
             THEN Overwrite(s, "Vector", SqrtFrom(v1.v, 1), "MathOverflow")
             ELSE IF v1.kind = "Scalar"
             THEN LET r == checked_sqrt(v1.v)
                  IN  IF r.tag = "Some" THEN Done(SetTop(s, OpScalar(r.v)))
                      ELSE Fail("MathOverflow", s)
             ELSE Fail("InvalidOperand", s)

\* A variant the fold-sum law tells from the loop of vsum: the last element
\* in place of the sum.
SumFromLast(v, i, acc) ==
    IF v = << >> THEN Some(acc) ELSE Some(v[Len(v)])

RECURSIVE SumFrom(_, _, _)
SumFrom(v, i, acc) ==
    IF i > Len(v) THEN Some(acc)
    ELSE LET r == checked_add(acc, v[i])
         IN  IF r.tag # "Some" THEN r ELSE SumFrom(v, i + 1, r.v)

RECURSIVE MinFrom(_, _, _)
MinFrom(v, i, acc) ==
    IF i > Len(v) THEN acc ELSE MinFrom(v, i + 1, amount_min(acc, v[i]))

RECURSIVE MaxFrom(_, _, _)
MaxFrom(v, i, acc) ==
    IF i > Len(v) THEN acc ELSE MaxFrom(v, i + 1, amount_max(acc, v[i]))

\* vsum, vmin, vmax pop the operand before they look at it.
vsum(s) ==
    IF s.stack = << >> THEN Fail("StackUnderflow", s)
    ELSE LET v == Top(s)
             rest == Pop1(s)
         IN  IF v.kind # "Vector" THEN Fail("InvalidOperand", rest)
             ELSE LET r == SumFrom(v.v, 1, ZERO)
                  IN  IF r.tag # "Some" THEN Fail("MathOverflow", rest)
                      ELSE Done(push(rest, OpScalar(r.v)))

vmin(s) ==
    IF s.stack = << >> THEN Fail("StackUnderflow", s)
    ELSE LET v == Top(s)
             rest == Pop1(s)
         IN  IF v.kind # "Vector" THEN Fail("InvalidOperand", rest)
             ELSE Done(push(rest, OpScalar(MinFrom(v.v, 1, MAX))))

vmax(s) ==
    IF s.stack = << >> THEN Fail("StackUnderflow", s)
    ELSE LET v == Top(s)
             rest == Pop1(s)
         IN  IF v.kind # "Vector" THEN Fail("InvalidOperand", rest)
             ELSE Done(push(rest, OpScalar(MaxFrom(v.v, 1, ZERO))))

\* min and max have no pos == 0 arm and no Vector/Scalar arm.
minmax(s, pos, pick) ==
    LET i == get_stack_index(s, pos)
    IN  IF i.res # "Ok" THEN Fail(i.res, s)
        ELSE IF i.idx >= Len(s.stack) - 1 THEN Fail("OutOfRange", s)
        ELSE LET v1 == Top(s)
                 v2 == s.stack[i.idx + 1]
                 f(a, b) == IF pick = "min" THEN amount_min(a, b) ELSE amount_max(a, b)
             IN  IF v1.kind = "Vector" /\ v2.kind = "Vector"
                 THEN IF Len(v1.v) # Len(v2.v) THEN Fail("NotAligned", s)
                      ELSE Done(SetTop(s, OpVector(
                               [k \in 1..Len(v1.v) |-> f(v1.v[k], v2.v[k])])))
                 ELSE IF v1.kind = "Scalar" /\ v2.kind = "Scalar"
                 THEN Done(SetTop(s, OpScalar(f(v1.v, v2.v))))
                 ELSE Fail("InvalidOperand", s)

min(s, pos) == minmax(s, pos, "min")

max(s, pos) == minmax(s, pos, "max")

\* zeros and ones.
filled(s, pos, x) ==
    LET i == get_stack_index(s, pos)
    IN  IF i.res # "Ok" THEN Fail(i.res, s)
        ELSE LET labels == s.stack[i.idx + 1]
             IN  IF labels.kind \in {"Vector", "Labels"}
                 THEN Done(push(s, OpVector(Fill(Len(labels.v), x))))
                 ELSE Fail("InvalidOperand", s)

zeros(s, pos) == filled(s, pos, ZERO)

ones(s, pos) == filled(s, pos, ONE)

imms(s, value) == Done(push(s, OpScalar(from_u128_raw(value))))

imml(s, value) == Done(push(s, OpLabel(value)))

vpush(s, value) ==
    IF s.stack = << >> THEN Fail("StackUnderflow", s)
    ELSE IF Top(s).kind = "Vector"
    THEN Done(SetTop(s, OpVector(Append(Top(s).v, from_u128_raw(value)))))
    ELSE Fail("InvalidOperand", s)

lpush(s, value) ==
    IF s.stack = << >> THEN Fail("StackUnderflow", s)
    ELSE IF Top(s).kind = "Labels"
    THEN Done(SetTop(s, OpLabels(Append(Top(s).v, value))))
    ELSE Fail("InvalidOperand", s)

vpop(s) ==
    IF s.stack = << >> THEN Fail("StackUnderflow", s)
    ELSE IF Top(s).kind # "Vector" THEN Fail("InvalidOperand", s)
    ELSE IF Top(s).v = << >> THEN Fail("OutOfRange", s)
    ELSE LET d == Top(s).v
         IN  Done(push(SetTop(s, OpVector(Keep(d, Len(d) - 1))), OpScalar(d[Len(d)])))

lpop(s) ==
    IF s.stack = << >> THEN Fail("StackUnderflow", s)
    ELSE IF Top(s).kind # "Labels" THEN Fail("InvalidOperand", s)
    ELSE IF Top(s).v = << >> THEN Fail("OutOfRange", s)
    ELSE LET d == Top(s).v
         IN  Done(push(SetTop(s, OpLabels(Keep(d, Len(d) - 1))), OpLabel(d[Len(d)])))

op_pop(s, count) ==
    LET o == get_stack_offset(s, count)
    IN  IF o.res # "Ok" THEN Fail(o.res, s)
        ELSE Done([s EXCEPT !.stack = Keep(@, o.idx)])

swap(s, pos) ==
    LET i == get_stack_index(s, pos)
    IN  IF i.res # "Ok" THEN Fail(i.res, s)
        ELSE IF i.idx >= Len(s.stack) - 1 THEN Fail("OutOfRange", s)
        ELSE Done([s EXCEPT !.stack[Len(s.stack)] = s.stack[i.idx + 1],
                            !.stack[i.idx + 1] = Top(s)])

\* A variant of the merge of lunn that appends b to a without merging.
UnionAppended(a, b, i, j) == a \o b

\* The sorted union merge of lunn: labels a from 0-based i, b from j.
RECURSIVE UnionFrom(_, _, _, _)
UnionFrom(a, b, i, j) ==
    IF i < Len(a) /\ j < Len(b)
    THEN IF a[i + 1] < b[j + 1] THEN <<a[i + 1]>> \o UnionFrom(a, b, i + 1, j)
         ELSE IF a[i + 1] = b[j + 1] THEN <<a[i + 1]>> \o UnionFrom(a, b, i + 1, j + 1)
         ELSE <<b[j + 1]>> \o UnionFrom(a, b, i, j + 1)
    ELSE IF i < Len(a) THEN <<a[i + 1]>> \o UnionFrom(a, b, i + 1, j)
    ELSE IF j < Len(b) THEN <<b[j + 1]>> \o UnionFrom(a, b, i, j + 1)
    ELSE << >>

\* A variant of lunn that overwrites the Labels on top with the union.
lunn_in_place(s, pos) ==
    LET i == get_stack_index(s, pos)
    IN  IF i.res # "Ok" THEN Fail(i.res, s)
        ELSE IF i.idx >= Len(s.stack) - 1 THEN Fail("OutOfRange", s)
        ELSE LET labels_a_op == Top(s)
                 labels_b_op == s.stack[i.idx + 1]
             IN  IF labels_a_op.kind # "Labels" THEN Fail("InvalidOperand", s)
                 ELSE IF labels_b_op.kind # "Labels" THEN Fail("InvalidOperand", s)
                 ELSE Done([s EXCEPT !.stack[Len(s.stack)] = OpLabels(
                          UnionFrom(labels_a_op.v, labels_b_op.v, 0, 0))])

\* lunn pushes the union above both Labels.
lunn(s, pos) ==
    LET i == get_stack_index(s, pos)
    IN  IF i.res # "Ok" THEN Fail(i.res, s)
        ELSE IF i.idx >= Len(s.stack) - 1 THEN Fail("OutOfRange", s)
        ELSE LET labels_a_op == Top(s)
                 labels_b_op == s.stack[i.idx + 1]
             IN  IF labels_a_op.kind # "Labels" THEN Fail("InvalidOperand", s)
                 ELSE IF labels_b_op.kind # "Labels" THEN Fail("InvalidOperand", s)
                 ELSE Done(push(s, OpLabels(
                          UnionFrom(labels_a_op.v, labels_b_op.v, 0, 0))))

\* A variant of the join of jadd that hands back the carrier's values.
JoinCarrier(la, va, lb, vb, i, j) == Some(va)

\* The left outer merge join of jadd: the result from 0-based i of A on,
\* or the failure of a checked_add.
RECURSIVE JoinFrom(_, _, _, _, _, _)
JoinFrom(la, va, lb, vb, i, j) ==
    IF i >= Len(la) THEN Some(<< >>)
    ELSE IF j < Len(lb)
    THEN IF la[i + 1] < lb[j + 1]
         THEN LET r == JoinFrom(la, va, lb, vb, i + 1, j)
              IN  IF r.tag # "Some" THEN r ELSE Some(<<va[i + 1]>> \o r.v)
         ELSE IF la[i + 1] = lb[j + 1]
         THEN LET added == checked_add(va[i + 1], vb[j + 1])
              IN  IF added.tag # "Some" THEN added
                  ELSE LET r == JoinFrom(la, va, lb, vb, i + 1, j + 1)
                       IN  IF r.tag # "Some" THEN r ELSE Some(<<added.v>> \o r.v)
         ELSE JoinFrom(la, va, lb, vb, i, j + 1)
    ELSE LET r == JoinFrom(la, va, lb, vb, i + 1, j)
         IN  IF r.tag # "Some" THEN r ELSE Some(<<va[i + 1]>> \o r.v)

\* A variant of jadd that reads its two Vectors where they are and
\* overwrites the one on top with the result.
jadd_in_place(s, pos_labels_a, pos_labels_b) ==
    LET len == Len(s.stack)
    IN  IF len < 2 THEN Fail("StackUnderflow", s)
        ELSE IF Top(s).kind # "Vector" \/ s.stack[len - 1].kind # "Vector"
        THEN Fail("InvalidOperand", s)
        ELSE IF pos_labels_a < 2 \/ pos_labels_b < 2 THEN Fail("OutOfRange", s)
        ELSE IF len <= pos_labels_a \/ len <= pos_labels_b THEN Fail("OutOfRange", s)
        ELSE LET labels_a_op == s.stack[len - pos_labels_a]
                 labels_b_op == s.stack[len - pos_labels_b]
             IN  IF labels_a_op.kind # "Labels" \/ labels_b_op.kind # "Labels"
                 THEN Fail("InvalidOperand", s)
                 ELSE IF Len(labels_a_op.v) # Len(Top(s).v)
                         \/ Len(labels_b_op.v) # Len(s.stack[len - 1].v)
                 THEN Fail("NotAligned", s)
                 ELSE LET r == JoinFrom(labels_a_op.v, Top(s).v,
                                        labels_b_op.v, s.stack[len - 1].v, 0, 0)
                      IN  IF r.tag # "Some" THEN Fail("MathOverflow", s)
                          ELSE Done(SetTop(s, OpVector(r.v)))

\* jadd pops its two Vectors first (vector_a is the former TOS), then finds
\* the Labels among what is left; stack.len().checked_sub(1).unwrap() panics
\* when nothing is left.
jadd(s, pos_labels_a, pos_labels_b) ==
    IF Len(s.stack) < 2 THEN Fail("StackUnderflow", s)
    ELSE LET a_op  == Top(s)
             s1    == Pop1(s)
             b_op  == Top(s1)
             s2    == Pop1(s1)
             len   == Len(s2.stack)
         IN  IF a_op.kind # "Vector" THEN Fail("InvalidOperand", s1)
             ELSE IF b_op.kind # "Vector" THEN Fail("InvalidOperand", s2)
             ELSE IF pos_labels_a < 2 \/ pos_labels_b < 2 THEN Fail("OutOfRange", s2)
             ELSE IF len = 0 THEN Fail("Panic", s2)
             ELSE IF len - 1 < pos_labels_a - 2 \/ len - 1 < pos_labels_b - 2
             THEN Fail("OutOfRange", s2)
             ELSE LET labels_a_op == s2.stack[len - 1 - (pos_labels_a - 2) + 1]
                      labels_b_op == s2.stack[len - 1 - (pos_labels_b - 2) + 1]
                  IN  IF labels_a_op.kind # "Labels" THEN Fail("InvalidOperand", s2)
                      ELSE IF labels_b_op.kind # "Labels" THEN Fail("InvalidOperand", s2)
                      ELSE IF Len(labels_a_op.v) # Len(a_op.v)
                              \/ Len(labels_b_op.v) # Len(b_op.v)
                      THEN Fail("NotAligned", s2)
                      ELSE LET r == JoinFrom(labels_a_op.v, a_op.v,
                                             labels_b_op.v, b_op.v, 0, 0)
                           IN  IF r.tag # "Some" THEN Fail("MathOverflow", s2)
                               ELSE Done(push(s2, OpVector(r.v)))

----------------------------------------------------------------------------
(* The store: trait VectorIO as TestVectorIO implements it, three maps.    *)

Put(f, k, x) == [y \in DOMAIN f \cup {k} |-> IF y = k THEN x ELSE f[y]]

Loaded(x)  == [res |-> "Ok", v |-> x]
NotLoaded  == [res |-> "NotFound", v |-> << >>]

load_labels(io, id) ==
    IF id \in DOMAIN io.labels THEN Loaded(io.labels[id]) ELSE NotLoaded

load_vector(io, id) ==
    IF id \in DOMAIN io.vectors THEN Loaded(io.vectors[id]) ELSE NotLoaded

load_scalar(io, id) ==
    IF id \in DOMAIN io.scalars THEN Loaded(io.scalars[id]) ELSE NotLoaded

\* Variants the properties below tell from the store: a store_vector that
\* writes under the next key, a store_scalar that keeps a value once set.
store_vector_next_key(io, id, input) ==
    [io EXCEPT !.vectors = Put(@, id + 1, input)]

store_scalar_once(io, id, input) ==
    IF id \in DOMAIN io.scalars THEN io
    ELSE [io EXCEPT !.scalars = Put(@, id, input)]

store_labels(io, id, input) == [io EXCEPT !.labels = Put(@, id, input)]

store_vector(io, id, input) == [io EXCEPT !.vectors = Put(@, id, input)]

store_scalar(io, id, input) == [io EXCEPT !.scalars = Put(@, id, input)]

----------------------------------------------------------------------------
(* Labels::from_vec and Labels::to_vec: 16 little-endian bytes a word.     *)

WordBytes == 16

RECURSIVE write_u128(_, _)
write_u128(val, n) ==
    IF n = 0 THEN << >> ELSE <<val % 256>> \o write_u128(val \div 256, n - 1)

RECURSIVE read_u128(_)
read_u128(bytes) ==
    IF bytes = << >> THEN 0 ELSE Head(bytes) + 256 * read_u128(Tail(bytes))

RECURSIVE to_vec(_)
to_vec(data) ==
    IF data = << >> THEN << >>
    ELSE write_u128(Head(data), WordBytes) \o to_vec(Tail(data))

\* from_vec panics on a length that is no multiple of 16.
from_vec_panics(bytes) == Len(bytes) % WordBytes # 0

from_vec(bytes) ==
    [i \in 1..(Len(bytes) \div WordBytes) |->
        read_u128(SubSeq(bytes, (i - 1) * WordBytes + 1, i * WordBytes))]

----------------------------------------------------------------------------
(* The instruction set.                                                    *)

OP_LDL == 10
OP_LDV == 11
OP_LDS == 12
OP_LDD == 13
OP_LDR == 14
OP_STL == 20
OP_STV == 21
OP_STS == 22
OP_STR == 23
OP_PKV == 30
OP_PKL == 31
OP_UNPK == 32
OP_VPUSH == 33
OP_VPOP == 34
OP_T == 35
OP_LUNN == 40
OP_LPUSH == 41
OP_LPOP == 42
OP_ADD == 50
OP_SUB == 51
OP_MUL == 52
OP_DIV == 53
OP_SQRT == 54
OP_MIN == 60
OP_MAX == 61
OP_VSUM == 70
OP_VMIN == 71
OP_VMAX == 72
OP_IMMS == 80
OP_IMML == 81
OP_ZEROS == 82
OP_ONES == 83
OP_POP == 90
OP_SWAP == 91
OP_JADD == 92
OP_B == 93
OP_FOLD == 94

\* The arms of the match of execute_with_stack, by the number of argument
\* words each reads.
Ops0 == {OP_UNPK, OP_SQRT, OP_VSUM, OP_VMIN, OP_VMAX, OP_VPOP, OP_LPOP}
OpsLoad  == {OP_LDL, OP_LDV, OP_LDS}
OpsStore == {OP_STL, OP_STV, OP_STS}
Ops1 == {OP_LDD, OP_LDR, OP_STR, OP_PKV, OP_PKL, OP_T, OP_ADD, OP_SUB, OP_MUL,
         OP_DIV, OP_MIN, OP_MAX, OP_LUNN, OP_ZEROS, OP_ONES, OP_IMMS, OP_IMML,
         OP_VPUSH, OP_LPUSH, OP_POP, OP_SWAP}
OpsCall == {OP_B, OP_FOLD}
OpsInternal == Ops0 \cup Ops1 \cup {OP_JADD}
Opcodes == OpsInternal \cup OpsLoad \cup OpsStore \cup OpsCall

NumArgs(op_code) ==
    IF op_code \in Ops0 THEN 0
    ELSE IF op_code \in Ops1 \cup OpsLoad \cup OpsStore THEN 1
    ELSE IF op_code = OP_JADD THEN 2
    ELSE 4

\* The arms that touch only the frame's Stack.
Internal(s, op_code, a, b) ==
    CASE op_code = OP_LDD   -> ldd(s, a)
      [] op_code = OP_LDR   -> ldr(s, a)
      [] op_code = OP_STR   -> op_str(s, a)
      [] op_code = OP_PKV   -> pkv(s, a)
      [] op_code = OP_PKL   -> pkl(s, a)
      [] op_code = OP_UNPK  -> unpk(s)
      [] op_code = OP_T     -> transpose(s, a)
      [] op_code = OP_ADD   -> add(s, a)
      [] op_code = OP_SUB   -> sub(s, a)
      [] op_code = OP_MUL   -> mul(s, a)
      [] op_code = OP_DIV   -> div(s, a)
      [] op_code = OP_SQRT  -> sqrt(s)
      [] op_code = OP_VSUM  -> vsum(s)
      [] op_code = OP_MIN   -> min(s, a)
      [] op_code = OP_MAX   -> max(s, a)
      [] op_code = OP_LUNN  -> lunn(s, a)
      [] op_code = OP_ZEROS -> zeros(s, a)
      [] op_code = OP_ONES  -> ones(s, a)
      [] op_code = OP_IMMS  -> imms(s, a)
      [] op_code = OP_IMML  -> imml(s, a)
      [] op_code = OP_VMIN  -> vmin(s)
      [] op_code = OP_VMAX  -> vmax(s)
      [] op_code = OP_VPUSH -> vpush(s, a)
      [] op_code = OP_LPUSH -> lpush(s, a)
      [] op_code = OP_VPOP  -> vpop(s)
      [] op_code = OP_LPOP  -> lpop(s)
      [] op_code = OP_POP   -> op_pop(s, a)
      [] op_code = OP_SWAP  -> swap(s, a)
      [] op_code = OP_JADD  -> jadd(s, a, b)

----------------------------------------------------------------------------
(* The state: one store and one invocation of Program::execute over it.    *)

VARIABLES
    vio,      \* the store the Program borrows
    frames,   \* the activations of execute_with_stack, the running one last
    status,   \* "idle", "running", "ok", "err" or "abort"
    error,    \* the ErrorCode returned; of an abort, "Panic" for a panic
              \* and "StackExhausted" for an overflow of the thread's stack
    vio0,     \* history: the store when execute was called
    written,  \* history: the last value each STL/STV/STS of the invocation stored
    devil,    \* the storage of the Devil contract: owner, scalars, vectors
    order,    \* the storage of one IndexOrder of the Dior contract
    reply     \* the last call of a contract: its arguments and what it returned

vars == <<vio, frames, status, error, vio0, written, devil, order, reply>>

\* Bounds of the inputs: the largest argument word, the largest register
\* count, and a cap on the nesting of activations, which the stored programs
\* below stay under (an activation repeats before they reach it).
MaxArg == 3
MaxReg == 2
MaxCallDepth == 8

Empty == [x \in {} |-> << >>]

\* One activation of execute_with_stack: its code, pc and Stack, and what
\* the B or FOLD arm that made it keeps in its locals (num_outputs, the
\* source of a FOLD and the number of its elements already pushed).  entry
\* is the activation's input: its code, the Stack it started with and the
\* store at that moment.
Frame(code, pc, st, kind, num_outputs, source, iter, io) ==
    [code |-> code, pc |-> pc, st |-> st, kind |-> kind,
     num_outputs |-> num_outputs, source |-> source, iter |-> iter,
     entry |-> [code |-> code, st |-> st, vio |-> io]]

Cur == frames[Len(frames)]
Running == status = "running"
AtEnd == Cur.pc >= Len(Cur.code)
op_code_at(f) == f.code[f.pc + 1]
ArgOf(f, k) == f.code[f.pc + 1 + k]
\* Reading an argument word past the end of the code: code[pc] panics.
Underrun(f) == f.pc + NumArgs(op_code_at(f)) >= Len(f.code)
Decoded(f, ops) ==
    /\ f.pc < Len(f.code)
    /\ op_code_at(f) \in ops
    /\ ~Underrun(f)

\* An activation whose input equals the input of an activation it is nested
\* in repeats that activation's nesting: execute_with_stack is a function
\* of its input, so the nesting goes on until the thread's stack is
\* exhausted and the runtime aborts the process.
SameOperand(a, b) == a.kind = b.kind /\ a.v = b.v

SameOperands(s, t) ==
    /\ Len(s) = Len(t)
    /\ \A i \in 1..Len(s) : SameOperand(s[i], t[i])

SameStack(s, t) ==
    /\ SameOperands(s.stack, t.stack)
    /\ SameOperands(s.registry, t.registry)

Repeats(below, f) ==
    \E i \in 1..Len(below) :
        /\ below[i].entry.code = f.entry.code
        /\ below[i].entry.vio = f.entry.vio
        /\ SameStack(below[i].entry.st, f.entry.st)

SetCur(f) == [frames EXCEPT ![Len(frames)] = f]

\* The invocation ends with Err(e), or with a panic, in the running frame.
Raise(e, s) ==
    /\ frames' = SetCur([Cur EXCEPT !.st = s])
    /\ status' = IF e = "Panic" THEN "abort" ELSE "err"
    /\ error' = e

Advance(f, s) == [f EXCEPT !.pc = @ + 1 + NumArgs(op_code_at(f)), !.st = s]

----------------------------------------------------------------------------
(* The inputs: store contents and programs.                                *)

Amt(n) == from_u128_raw(n)

\* Programs kept in the store, by key.
PrgAdd1      == <<OP_ADD, 1>>
PrgSelf      == <<OP_B, 11, 0, 0, 0>>
PrgCalls13   == <<OP_B, 13, 0, 0, 0>>
PrgFolds12   == <<OP_LDV, 1, OP_FOLD, 12, 0, 0, 0>>
PrgSwap      == <<OP_SWAP, 1>>
PrgStoreFail == <<OP_STS, 3, OP_POP, 1>>
PrgRegs      == <<OP_STR, 0, OP_LDR, 0>>
PrgReadsV1   == <<OP_LDV, 1>>
PrgEmpty     == << >>
PrgRewrites  == <<OP_LDL, 3, OP_STL, 19>>

FullStore ==
    [labels  |-> (1 :> <<1, 3, 5>>) @@ (2 :> <<3>>) @@ (3 :> << >>)
                 @@ (4 :> <<2, 3, 7>>)
                 @@ (10 :> PrgAdd1) @@ (11 :> PrgSelf) @@ (12 :> PrgCalls13)
                 @@ (13 :> PrgFolds12) @@ (14 :> PrgSwap) @@ (15 :> PrgStoreFail)
                 @@ (16 :> PrgRegs) @@ (17 :> PrgReadsV1) @@ (18 :> PrgEmpty)
                 @@ (19 :> PrgRewrites),
     vectors |-> (1 :> <<Amt(1), Amt(2), Amt(3)>>) @@ (2 :> <<Amt(4)>>)
                 @@ (3 :> <<MAX, ZERO, ONE>>) @@ (4 :> << >>),
     scalars |-> (1 :> Amt(5)) @@ (2 :> ZERO) @@ (3 :> MAX)]

EmptyStore == [labels |-> Empty, vectors |-> Empty, scalars |-> Empty]

Stores == {FullStore, EmptyStore}

ProgKeys == {0} \cup (10..18)

ArgVals == 0..MaxArg

\* Every instruction with its arguments from the bounded sets, words that
\* are no opcode (0 and 99, and 43 and 55, which lie between the groups of
\* opcodes), and instructions cut short.
Instrs ==
    {<<op>> : op \in Ops0 \cup {0, 43, 55, 99}}
    \cup {<<op, a>> : op \in Ops1 \cup OpsLoad \cup OpsStore, a \in ArgVals}
    \cup {<<OP_JADD, a, b>> : a \in ArgVals, b \in ArgVals}
    \cup {<<op, k, i, o, r>> : op \in OpsCall, k \in ProgKeys,
                               i \in ArgVals, o \in 0..MaxReg, r \in {0, 1}}
    \cup {<<op>> : op \in Opcodes \ Ops0}
    \cup {<<OP_JADD, 2>>, <<OP_B, 10, 1, 1>>, <<OP_FOLD, 10>>}

\* What a program does first, to give the instruction under test a stack.
Preambles ==
    { << >>,
      <<OP_IMMS, 0, OP_IMMS, 3>>,
      <<OP_LDS, 3, OP_LDS, 3>>,
      <<OP_LDV, 1, OP_LDV, 3>>,
      <<OP_LDS, 1, OP_LDV, 1>>,
      <<OP_LDV, 1, OP_LDV, 2>>,
      <<OP_LDL, 1, OP_LDL, 2>>,
      <<OP_LDL, 1, OP_LDL, 2, OP_LDV, 2, OP_LDV, 1>>,
      <<OP_IMML, 1, OP_IMML, 2>>,
      <<OP_IMMS, 1, OP_STR, 0, OP_IMMS, 2, OP_IMMS, 3>> }

\* Programs written out: stores followed by a failure, a load after a
\* store, in the program and in a subprogram; a FOLD of ADD 1 over each
\* stored vector; arithmetic on a zero and below zero; LUNN and JADD over
\* the stored labels; JADD of two vectors under the same Labels, ascending,
\* empty and descending; T over two and three vectors, of length 3, 1 and
\* 0, and T over the rows that leaves; UNPK and the pack that undoes it;
\* ADD and SUB of two Scalars at the ends of the range of u128; a FOLD
\* and a B of the program that stores other code under its own key.
Written ==
    { <<OP_LDV, 1, OP_STV, 2, OP_ADD, 0>>,
      <<OP_IMMS, 7, OP_B, 15, 1, 0, 0>>,
      <<OP_LDV, 1, OP_ADD, 0, OP_STV, 1, OP_LDV, 1>>,
      <<OP_LDV, 1, OP_ADD, 0, OP_STV, 1, OP_B, 17, 0, 1, 0>>,
      <<OP_IMMS, 7, OP_STS, 1, OP_LDS, 1, OP_IMML, 4, OP_PKL, 1, OP_STL, 1, OP_LDL, 1>>,
      <<OP_LDS, 2, OP_DIV, 0>>,
      <<OP_LDS, 2, OP_LDD, 0, OP_DIV, 1>>,
      <<OP_IMMS, 3, OP_IMMS, 0, OP_SUB, 1>>,
      <<OP_LDL, 1, OP_LDL, 2, OP_LDV, 1, OP_LDV, 2, OP_JADD, 3, 2>>,
      <<OP_LDL, 1, OP_LDL, 4, OP_LDV, 1, OP_LDV, 1, OP_JADD, 3, 2>> }
    \cup {<<OP_IMMS, 0, OP_LDV, k, OP_FOLD, 10, 1, 1, 0>> : k \in 1..4}
    \cup {<<OP_LDL, a, OP_LDL, b, OP_LUNN, 1>> : a \in 1..4, b \in 1..4}
    \cup {<<OP_LDL, 1, OP_LDV, a, OP_LDV, b, OP_JADD, 2, 2>> : a \in {1, 3}, b \in {1, 3}}
    \cup { <<OP_LDL, 3, OP_LDV, 4, OP_LDV, 4, OP_JADD, 2, 2>>,
           <<OP_LDL, 10, OP_IMMS, 1, OP_IMMS, 2, OP_PKV, 2, OP_LDD, 0, OP_JADD, 2, 2>> }
    \cup { <<OP_LDV, 1, OP_LDV, 3, OP_LDV, 1, OP_T, 3>>,
           <<OP_IMMS, 7, OP_LDV, 1, OP_LDV, 3, OP_T, 2>>,
           <<OP_LDV, 1, OP_LDV, 3, OP_T, 2, OP_T, 3>>,
           <<OP_IMMS, 7, OP_LDV, 1, OP_LDV, 3, OP_LDV, 1, OP_T, 3, OP_T, 3>>,
           <<OP_LDV, 2, OP_LDV, 2, OP_T, 2, OP_T, 1>>,
           <<OP_LDV, 4, OP_LDV, 4, OP_T, 2, OP_T, 0>>,
           <<OP_LDV, 1, OP_T, 1, OP_T, 3>> }
    \cup { <<OP_IMMS, 7, OP_LDV, 1, OP_UNPK, OP_PKV, 3>>,
           <<OP_LDL, 1, OP_UNPK, OP_PKL, 3>> }
    \cup {<<OP_LDS, a, OP_LDS, b, op, 1>> : a \in 1..3, b \in 1..3,
                                            op \in {OP_ADD, OP_SUB}}
    \cup { <<OP_LDV, 1, OP_FOLD, 19, 0, 0, 0>>,
           <<OP_IMMS, 1, OP_B, 19, 1, 1, 0, OP_B, 19, 1, 1, 0>> }
    \cup {<<OP_LDS, 3, OP_IMMS, a, op, 1>> : a \in {0, 1}, op \in {OP_ADD, OP_SUB}}
    \cup {<<OP_IMMS, a, OP_LDS, 3, op, 1>> : a \in {0, 1}, op \in {OP_ADD, OP_SUB}}

Programs ==
    {pre \o ins : pre \in Preambles, ins \in Instrs}
    \cup Written

\* The byte vectors handed to execute: programs as to_vec serialises them,
\* and some with a byte too many.
CodeInputs ==
    {to_vec(c) : c \in Programs} \cup {to_vec(c) \o <<0>> : c \in Written}

RegCounts == {0, MaxReg}

\* A call of a contract as reply records it: who called what with which
\* arguments, and the Result it returned (res "Panic" for a call that
\* aborted and was reverted).
Called(call, sender, id, data, more, r) ==
    [call |-> call, sender |-> sender, id |-> id, data |-> data, more |-> more,
     res |-> r.res, err |-> r.err, v |-> r.v]

----------------------------------------------------------------------------
(* Program::execute and execute_with_stack, an instruction a step.         *)

Init ==
    /\ vio \in Stores
    /\ frames = << >>
    /\ status = "idle"
    /\ error = "None"
    /\ vio0 = vio
    /\ written = EmptyStore
    /\ devil = [owner |-> 0, scalars |-> Empty, vectors |-> Empty]
    /\ order = [collateral_amount |-> ZERO, collateral_spent |-> ZERO,
                collateral_engaged |-> ZERO, quantity_filled |-> ZERO]
    /\ reply = Called("none", 0, 0, << >>, << >>, [res |-> "Ok", err |-> "", v |-> << >>])

\* Program::execute(code_bytes, num_registers).
execute(code_bytes, num_registers) ==
    /\ status = "idle"
    /\ IF from_vec_panics(code_bytes)
       THEN /\ status' = "abort"
            /\ error' = "Panic"
            /\ frames' = frames
       ELSE /\ status' = "running"
            /\ error' = error
            /\ frames' = <<Frame(from_vec(code_bytes), 0, NewStack(num_registers),
                                 "main", 0, << >>, 0, vio)>>
    /\ UNCHANGED <<vio, vio0, written>>

\* A word in opcode position that no arm of the match names.
Invalid ==
    /\ Running /\ ~AtEnd
    /\ op_code_at(Cur) \notin Opcodes
    /\ Raise("InvalidInstruction", Cur.st)
    /\ UNCHANGED <<vio, vio0, written>>
    /\ UNCHANGED <<devil, order, reply>>

\* The code ends before the last argument word of the instruction.
Truncated ==
    /\ Running /\ ~AtEnd
    /\ op_code_at(Cur) \in Opcodes
    /\ Underrun(Cur)
    /\ Raise("Panic", Cur.st)
    /\ UNCHANGED <<vio, vio0, written>>
    /\ UNCHANGED <<devil, order, reply>>

\* An instruction that works on the frame's Stack alone.
Step ==
    /\ Running /\ Decoded(Cur, OpsInternal)
    /\ LET n == NumArgs(op_code_at(Cur))
           r == Internal(Cur.st, op_code_at(Cur),
                         IF n >= 1 THEN ArgOf(Cur, 1) ELSE 0,
                         IF n >= 2 THEN ArgOf(Cur, 2) ELSE 0)
       IN  IF r.res = "Ok"
           THEN /\ frames' = SetCur(Advance(Cur, r.st))
                /\ UNCHANGED <<status, error>>
           ELSE Raise(r.res, r.st)
    /\ UNCHANGED <<vio, vio0, written>>
    /\ UNCHANGED <<devil, order, reply>>

\* LDL, LDV, LDS.
Load ==
    /\ Running /\ Decoded(Cur, OpsLoad)
    /\ LET op == op_code_at(Cur)
           id == ArgOf(Cur, 1)
           r  == IF op = OP_LDL THEN load_labels(vio, id)
                 ELSE IF op = OP_LDV THEN load_vector(vio, id)
                 ELSE load_scalar(vio, id)
           o  == IF op = OP_LDL THEN OpLabels(r.v)
                 ELSE IF op = OP_LDV THEN OpVector(r.v)
                 ELSE OpScalar(r.v)
       IN  IF r.res = "Ok"
           THEN /\ frames' = SetCur(Advance(Cur, push(Cur.st, o)))
                /\ UNCHANGED <<status, error>>
           ELSE Raise(r.res, Cur.st)
    /\ UNCHANGED <<vio, vio0, written>>
    /\ UNCHANGED <<devil, order, reply>>

\* The kind of operand STL, STV and STS accept.
StoredKind(op) ==
    IF op = OP_STL THEN "Labels" ELSE IF op = OP_STV THEN "Vector" ELSE "Scalar"

\* STL, STV, STS: the operand is popped before its kind is looked at.
Store ==
    /\ Running /\ Decoded(Cur, OpsStore)
    /\ LET op == op_code_at(Cur)
           id == ArgOf(Cur, 1)
       IN  IF Cur.st.stack = << >>
           THEN /\ Raise("StackUnderflow", Cur.st)
                /\ UNCHANGED <<vio, written>>
           ELSE IF Top(Cur.st).kind # StoredKind(op)
           THEN /\ Raise("InvalidOperand", Pop1(Cur.st))
                /\ UNCHANGED <<vio, written>>
           ELSE /\ frames' = SetCur(Advance(Cur, Pop1(Cur.st)))
                /\ vio' = IF op = OP_STL THEN store_labels(vio, id, Top(Cur.st).v)
                          ELSE IF op = OP_STV THEN store_vector(vio, id, Top(Cur.st).v)
                          ELSE store_scalar(vio, id, Top(Cur.st).v)
                /\ written' =
                      IF op = OP_STL
                      THEN [written EXCEPT !.labels = Put(@, id, Top(Cur.st).v)]
                      ELSE IF op = OP_STV
                      THEN [written EXCEPT !.vectors = Put(@, id, Top(Cur.st).v)]
                      ELSE [written EXCEPT !.scalars = Put(@, id, Top(Cur.st).v)]
                /\ UNCHANGED <<status, error>>
    /\ UNCHANGED vio0
    /\ UNCHANGED <<devil, order, reply>>

\* A new activation on top of the caller; one that repeats an activation
\* it is nested in ends the invocation in the abort of the stack overflow.
Enter(caller, callee) ==
    IF Repeats(frames, callee)
    THEN /\ frames' = SetCur(caller)
         /\ status' = "abort"
         /\ error' = "StackExhausted"
    ELSE /\ frames' = Append(SetCur(caller), callee)
         /\ UNCHANGED <<status, error>>

\* B <program_id> <num_inputs> <num_outputs> <num_registers>, up to the
\* call of execute_with_stack.
Branch ==
    /\ Running /\ Decoded(Cur, {OP_B})
    /\ Len(frames) < MaxCallDepth
    /\ LET code_address == ArgOf(Cur, 1)
           num_inputs   == ArgOf(Cur, 2)
           num_outputs  == ArgOf(Cur, 3)
           num_regs     == ArgOf(Cur, 4)
           cod          == load_labels(vio, code_address)
           frm          == checked_sub_len(Len(Cur.st.stack), num_inputs)
       IN  IF cod.res # "Ok" THEN Raise(cod.res, Cur.st)
           ELSE IF frm.tag # "Some" THEN Raise("StackUnderflow", Cur.st)
           ELSE LET st == [NewStack(num_regs) EXCEPT
                              !.stack = Drain(Cur.st.stack, frm.v)]
                IN  Enter(Advance(Cur, [Cur.st EXCEPT !.stack = Keep(@, frm.v)]),
                          Frame(cod.v, 0, st, "B", num_outputs, << >>, 0, vio))
    /\ UNCHANGED <<vio, vio0, written>>
    /\ UNCHANGED <<devil, order, reply>>

\* FOLD <program_id> <num_inputs> <num_outputs> <num_registers>, up to its
\* loop over the source.
Fold ==
    /\ Running /\ Decoded(Cur, {OP_FOLD})
    /\ Len(frames) < MaxCallDepth
    /\ LET code_address == ArgOf(Cur, 1)
           num_inputs   == ArgOf(Cur, 2)
           num_outputs  == ArgOf(Cur, 3)
           num_regs     == ArgOf(Cur, 4)
           cod          == load_labels(vio, code_address)
       IN  IF cod.res # "Ok" THEN Raise(cod.res, Cur.st)
           ELSE IF Cur.st.stack = << >> THEN Raise("StackUnderflow", Cur.st)
           ELSE LET source == Top(Cur.st)
                    popped == Pop1(Cur.st)
                    frm    == checked_sub_len(Len(popped.stack), num_inputs)
                IN  IF frm.tag # "Some" THEN Raise("StackUnderflow", popped)
                    ELSE LET rest == [popped EXCEPT !.stack = Keep(@, frm.v)]
                             st   == [NewStack(num_regs) EXCEPT
                                         !.stack = Drain(popped.stack, frm.v)]
                             item == IF source.kind = "Labels" THEN "Label" ELSE "Scalar"
                         IN  IF source.kind \notin {"Labels", "Vector"}
                             THEN Raise("InvalidOperand", rest)
                             ELSE /\ frames' = Append(SetCur(Advance(Cur, rest)),
                                        Frame(cod.v, Len(cod.v), st, "FOLD", num_outputs,
                                              [i \in 1..Len(source.v) |->
                                                 [kind |-> item, v |-> source.v[i]]],
                                              0, vio))
                                  /\ UNCHANGED <<status, error>>
    /\ UNCHANGED <<vio, vio0, written>>
    /\ UNCHANGED <<devil, order, reply>>

\* A variant the reuse of the loaded code tells from cod.data.clone(): the
\* code the store holds under the key of the FOLD when the turn begins.
cod_data_reloaded(f) ==
    LET caller == frames[Len(frames) - 1]
        cod    == load_labels(vio, caller.code[caller.pc - 3])
    IN  IF cod.res = "Ok" THEN cod.v ELSE f.code

\* cod.data.clone(): the code a turn of the loop of FOLD runs.
cod_data_clone(f) == f.code

\* One turn of the loop of FOLD: the next element is pushed and the program
\* runs again on the same Stack; a turn that repeats an activation it is
\* nested in ends the invocation in the abort of the stack overflow.
FoldNext ==
    /\ Running /\ AtEnd
    /\ Cur.kind = "FOLD" /\ Cur.iter < Len(Cur.source)
    /\ LET st  == push(Cur.st, Cur.source[Cur.iter + 1])
           run == Frame(cod_data_clone(Cur), 0, st, "FOLD", Cur.num_outputs, Cur.source,
                        Cur.iter + 1, vio)
       IN  IF Repeats(SubSeq(frames, 1, Len(frames) - 1), run)
           THEN /\ status' = "abort"
                /\ error' = "StackExhausted"
                /\ frames' = frames
           ELSE /\ frames' = SetCur(run)
                /\ UNCHANGED <<status, error>>
    /\ UNCHANGED <<vio, vio0, written>>
    /\ UNCHANGED <<devil, order, reply>>

\* The callee of a B, or the loop of a FOLD, is done: its top num_outputs
\* operands go to the caller.
Return ==
    /\ Running /\ AtEnd
    /\ \/ Cur.kind = "B"
       \/ Cur.kind = "FOLD" /\ Cur.iter = Len(Cur.source)
    /\ LET frm == checked_sub_len(Len(Cur.st.stack), Cur.num_outputs)
       IN  IF frm.tag # "Some"
           THEN /\ status' = "err"
                /\ error' = "StackUnderflow"
                /\ frames' = frames
           ELSE /\ frames' = [SubSeq(frames, 1, Len(frames) - 1) EXCEPT
                                 ![Len(frames) - 1].st.stack =
                                     @ \o Drain(Cur.st.stack, frm.v)]
                /\ UNCHANGED <<status, error>>
    /\ UNCHANGED <<vio, vio0, written>>
    /\ UNCHANGED <<devil, order, reply>>

\* The pc of the program handed to execute reaches the end of its code.
Finish ==
    /\ Running /\ AtEnd
    /\ Cur.kind = "main"
    /\ status' = "ok"
    /\ UNCHANGED <<vio, frames, error, vio0, written>>
    /\ UNCHANGED <<devil, order, reply>>

\* An invocation with a program and a register count from the input sets.
Execute ==
    /\ status = "idle"
    /\ \E code_bytes \in CodeInputs, num_registers \in RegCounts :
          execute(code_bytes, num_registers)
    /\ UNCHANGED <<devil, order, reply>>

Next ==
    \/ Execute
    \/ Invalid
    \/ Truncated
    \/ Step
    \/ Load
    \/ Store
    \/ Branch
    \/ Fold
    \/ FoldNext
    \/ Return
    \/ Finish

Spec == Init /\ [][Next]_vars

----------------------------------------------------------------------------
(* The Devil contract: the store it is to a Program, and its public calls. *)
(* Labels and a Vector are kept as the bytes of their elements, 16 to an   *)
(* element, the low byte first; Vector::to_vec and Vector::from_vec lay    *)
(* the Amounts out as Labels::to_vec and from_vec lay out the words.       *)

\* Bounds of the inputs: the largest storage key and the largest address
\* (address 0 is the zero address of an owner not yet set).
MaxKey == 2
MaxAddress == 2

\* StorageMap::getter: a slot never written holds the default of its type.
getter(map, id, default) == IF id \in DOMAIN map THEN map[id] ELSE default

\* The 16 bytes of an Amount, and the Amount of 16 bytes.
RECURSIVE write_amount(_, _)
write_amount(val, n) ==
    IF val = ZERO THEN [i \in 1..n |-> 0]
    ELSE CHOOSE y \in
           {<<Limb(LSub(val, LMulSmall(q, 256)), 1)>> \o write_amount(q, n - 1) :
            q \in {LDiv(val, <<256>>)}} : TRUE

\* The bytes from the i-th down to the first, below the value val of the
\* bytes above them.
RECURSIVE read_bytes(_, _, _)
read_bytes(bytes, i, val) ==
    IF i = 0 THEN val
    ELSE CHOOSE y \in
           {read_bytes(bytes, i - 1, low) :
            low \in {LAdd(ToLimbs(bytes[i]), LMulSmall(val, 256))}} : TRUE

read_amount(bytes) == read_bytes(bytes, Len(bytes), ZERO)

RECURSIVE Vector_to_vec(_)
Vector_to_vec(data) ==
    IF data = << >> THEN << >>
    ELSE write_amount(Head(data), WordBytes) \o Vector_to_vec(Tail(data))

Vector_from_vec(bytes) ==
    [i \in 1..(Len(bytes) \div WordBytes) |->
        read_amount(SubSeq(bytes, (i - 1) * WordBytes + 1, i * WordBytes))]

Devil_load_labels(d, id) ==
    LET vector == getter(d.vectors, id, << >>)
    IN  IF vector = << >> THEN NotLoaded
        ELSE IF from_vec_panics(vector) THEN [res |-> "Panic", v |-> << >>]
        ELSE Loaded(from_vec(vector))

Devil_load_vector(d, id) ==
    LET vector == getter(d.vectors, id, << >>)
    IN  IF vector = << >> THEN NotLoaded
        ELSE IF from_vec_panics(vector) THEN [res |-> "Panic", v |-> << >>]
        ELSE Loaded(Vector_from_vec(vector))

Devil_load_scalar(d, id) == Loaded(getter(d.scalars, id, ZERO))

Devil_store_labels(d, id, input) == [d EXCEPT !.vectors = Put(@, id, to_vec(input))]

Devil_store_vector(d, id, input) ==
    [d EXCEPT !.vectors = Put(@, id, Vector_to_vec(input))]

Devil_store_scalar(d, id, input) == [d EXCEPT !.scalars = Put(@, id, input)]

check_owner(d, sender) == sender = d.owner

\* The public calls: the Result and the storage after the call.
set_owner(d, owner) ==
    IF d.owner # 0
    THEN [res |-> "Err", err |-> "Cannot change owner", v |-> << >>, devil |-> d]
    ELSE [res |-> "Ok", err |-> "", v |-> << >>, devil |-> [d EXCEPT !.owner = owner]]

submit(d, sender, id, data) ==
    IF ~check_owner(d, sender)
    THEN [res |-> "Err", err |-> "Must be owner", v |-> << >>, devil |-> d]
    ELSE IF getter(d.vectors, id, << >>) # << >>
    THEN [res |-> "Err", err |-> "Duplicate data", v |-> << >>, devil |-> d]
    ELSE [res |-> "Ok", err |-> "", v |-> << >>,
          devil |-> [d EXCEPT !.vectors = Put(@, id, data)]]

get(d, sender, id) ==
    IF ~check_owner(d, sender)
    THEN [res |-> "Err", err |-> "Must be owner", v |-> << >>, devil |-> d]
    ELSE LET vector == getter(d.vectors, id, << >>)
         IN  IF vector # << >>
             THEN [res |-> "Err", err |-> "No data", v |-> << >>, devil |-> d]
             ELSE [res |-> "Ok", err |-> "", v |-> vector, devil |-> d]

\* What execute_with_stack over the Devil ended with: Ok, an ErrorCode,
\* "Panic" or "StackExhausted", the Stack and the storage it leaves.
Ended(res, st, d) == [res |-> res, st |-> st, devil |-> d]

\* execute_with_stack with the Devil as the store of the Program, from pc
\* to its end, by way of the arms of its match.  below holds the inputs of
\* the activations this one is nested in: one that repeats among them
\* nests in itself until the stack of the thread overflows.
RECURSIVE Devil_execute_with_stack(_, _, _, _, _)
RECURSIVE Devil_fold(_, _, _, _, _, _)

\* The arms of B and FOLD at f: the callee of B runs once on the inputs,
\* the loop of FOLD once for each item of the source.
Devil_call(d, f, below) ==
    LET op          == op_code_at(f)
        num_inputs  == ArgOf(f, 2)
        num_outputs == ArgOf(f, 3)
        num_regs    == ArgOf(f, 4)
        cod         == Devil_load_labels(d, ArgOf(f, 1))
    IN  IF cod.res # "Ok" THEN Ended(cod.res, f.st, d)
        ELSE IF op = OP_FOLD /\ f.st.stack = << >> THEN Ended("StackUnderflow", f.st, d)
        ELSE LET popped == IF op = OP_FOLD THEN Pop1(f.st) ELSE f.st
                 frm    == checked_sub_len(Len(popped.stack), num_inputs)
             IN  IF frm.tag # "Some" THEN Ended("StackUnderflow", popped, d)
                 ELSE LET rest == [popped EXCEPT !.stack = Keep(@, frm.v)]
                          st   == [NewStack(num_regs) EXCEPT
                                      !.stack = Drain(popped.stack, frm.v)]
                          item == IF Top(f.st).kind = "Labels" THEN "Label" ELSE "Scalar"
                      IN  IF op = OP_FOLD /\ Top(f.st).kind \notin {"Labels", "Vector"}
                          THEN Ended("InvalidOperand", rest, d)
                          ELSE CHOOSE y \in
                                 {IF r.res # "Ok" THEN Ended(r.res, rest, r.devil)
                                  ELSE LET out == checked_sub_len(Len(r.st.stack), num_outputs)
                                       IN  IF out.tag # "Some"
                                           THEN Ended("StackUnderflow", rest, r.devil)
                                           ELSE Ended("Ok",
                                                   [rest EXCEPT !.stack =
                                                       @ \o Drain(r.st.stack, out.v)],
                                                   r.devil) :
                                  r \in {Devil_fold(d, cod.v, st,
                                            IF op = OP_B THEN << >>
                                            ELSE [i \in 1..Len(Top(f.st).v) |->
                                                    [kind |-> item, v |-> Top(f.st).v[i]]],
                                            IF op = OP_B THEN 0 ELSE 1, below)}} : TRUE

\* One turn of the while loop over the code: the instruction at f.
Devil_instruction(d, f, below) ==
    LET op == op_code_at(f)
        n  == NumArgs(op)
        a1 == IF n >= 1 THEN ArgOf(f, 1) ELSE 0
        a2 == IF n >= 2 THEN ArgOf(f, 2) ELSE 0
    IN  IF op \notin Opcodes THEN Ended("InvalidInstruction", f.st, d)
        ELSE IF Underrun(f) THEN Ended("Panic", f.st, d)
        ELSE IF op \in OpsInternal
        THEN CHOOSE y \in {Ended(r.res, r.st, d) : r \in {Internal(f.st, op, a1, a2)}} : TRUE
        ELSE IF op \in OpsLoad
        THEN CHOOSE y \in
               {IF r.res # "Ok" THEN Ended(r.res, f.st, d)
                ELSE Ended("Ok", push(f.st, IF op = OP_LDL THEN OpLabels(r.v)
                                            ELSE IF op = OP_LDV THEN OpVector(r.v)
                                            ELSE OpScalar(r.v)), d) :
                r \in {IF op = OP_LDL THEN Devil_load_labels(d, a1)
                       ELSE IF op = OP_LDV THEN Devil_load_vector(d, a1)
                       ELSE Devil_load_scalar(d, a1)}} : TRUE
        ELSE IF op \in OpsStore
        THEN IF f.st.stack = << >> THEN Ended("StackUnderflow", f.st, d)
             ELSE IF Top(f.st).kind # StoredKind(op)
             THEN Ended("InvalidOperand", Pop1(f.st), d)
             ELSE Ended("Ok", Pop1(f.st),
                        IF op = OP_STL THEN Devil_store_labels(d, a1, Top(f.st).v)
                        ELSE IF op = OP_STV THEN Devil_store_vector(d, a1, Top(f.st).v)
                        ELSE Devil_store_scalar(d, a1, Top(f.st).v))
        ELSE Devil_call(d, f, below)

Devil_execute_with_stack(d, code, pc, st, below) ==
    IF pc >= Len(code) THEN Ended("Ok", st, d)
    ELSE CHOOSE y \in
           {IF r.res # "Ok" THEN r
            ELSE Devil_execute_with_stack(r.devil, code,
                    pc + 1 + NumArgs(code[pc + 1]), r.st, below) :
            r \in {Devil_instruction(d, [code |-> code, pc |-> pc, st |-> st], below)}} : TRUE

\* The callee of a B (turn 0: the code runs once on st as it is), and the
\* loop of a FOLD from its turn i on: the item is pushed and the code runs
\* on the Stack the turn before left.
Devil_fold(d, code, st, source, i, below) ==
    IF i > Len(source) THEN Ended("Ok", st, d)
    ELSE CHOOSE y \in
           {IF Repeats(below, turn) THEN Ended("StackExhausted", turn.entry.st, d)
            ELSE CHOOSE z \in
                   {IF r.res # "Ok" \/ i = 0 THEN r
                    ELSE Devil_fold(r.devil, code, r.st, source, i + 1, below) :
                    r \in {Devil_execute_with_stack(d, code, 0, turn.entry.st,
                                                    Append(below, turn))}} : TRUE :
            turn \in {[entry |-> [code |-> code, vio |-> d,
                                  st |-> IF i = 0 THEN st ELSE push(st, source[i])]]}} : TRUE

\* Devil::execute: the Program runs over the storage of the contract; a
\* call that returns Err, or that aborts, is reverted.  The call of
\* Program::execute in Devil::execute names no register count: it is an
\* input of the call here.
Devil_execute(d, sender, code, num_registers) ==
    IF ~check_owner(d, sender)
    THEN [res |-> "Err", err |-> "Must be owner", v |-> << >>, devil |-> d]
    ELSE IF from_vec_panics(code)
    THEN [res |-> "Panic", err |-> "", v |-> << >>, devil |-> d]
    ELSE CHOOSE y \in
           {IF r.res = "Ok"
            THEN [res |-> "Ok", err |-> "", v |-> << >>, devil |-> r.devil]
            ELSE IF r.res \in {"Panic", "StackExhausted"}
            THEN [res |-> "Panic", err |-> "", v |-> << >>, devil |-> d]
            ELSE [res |-> "Err", err |-> "Program error", v |-> << >>, devil |-> d] :
            r \in {Devil_execute_with_stack(d, from_vec(code), 0, NewStack(num_registers),
                      <<[entry |-> [code |-> from_vec(code), vio |-> d,
                                    st |-> NewStack(num_registers)]]>>)}} : TRUE

\* The Labels and Vectors a program stores, the programs executed, and the
\* bytes submitted and executed: none, one that is no whole word, and the
\* bytes of programs.
DevilWords == {<< >>, <<1>>, <<1, 2>>}
DevilVectors == {<< >>, <<Amt(1)>>, <<Amt(1), Amt(2)>>}
DevilPrograms ==
    {<<OP_IMMS, 5, OP_STS, 1>>,
     <<OP_IMMS, 5, OP_STS, 1, OP_ADD, 1>>,
     <<OP_IMMS, 0, OP_PKV, 0, OP_STV, 1>>,
     <<OP_IMMS, 0, OP_PKV, 0, OP_STV, 1, OP_LDV, 1>>,
     <<OP_IMMS, 1, OP_IMMS, 2, OP_PKV, 2, OP_STV, 2>>,
     <<OP_IMML, 1, OP_PKL, 1, OP_STL, 1>>,
     <<OP_B, 1, 0, 0, 0>>,
     <<OP_LDV, 2, OP_FOLD, 1, 0, 0, 0>>,
     <<OP_LDV>>}
DevilBytes ==
    {<< >>, <<7>>, to_vec(<<OP_IMMS, 5, OP_STS, 2>>), to_vec(<<OP_B, 1, 0, 0, 0>>)}
DevilCode == {to_vec(p) : p \in DevilPrograms} \cup {<<7>>}

SetOwner ==
    /\ \E sender \in 1..MaxAddress, owner \in 0..MaxAddress :
          LET r == set_owner(devil, owner)
          IN  /\ devil' = r.devil
              /\ reply' = Called("set_owner", sender, owner, << >>, << >>, r)
    /\ UNCHANGED <<vio, frames, status, error, vio0, written, order>>

Submit ==
    /\ \E sender \in 1..MaxAddress, id \in 1..MaxKey, data \in DevilBytes :
          LET r == submit(devil, sender, id, data)
          IN  /\ devil' = r.devil
              /\ reply' = Called("submit", sender, id, data, << >>, r)
    /\ UNCHANGED <<vio, frames, status, error, vio0, written, order>>

Get ==
    /\ \E sender \in 1..MaxAddress, id \in 1..MaxKey :
          LET r == get(devil, sender, id)
          IN  /\ devil' = r.devil
              /\ reply' = Called("get", sender, id, << >>, << >>, r)
    /\ UNCHANGED <<vio, frames, status, error, vio0, written, order>>

DevilExecute ==
    /\ \E sender \in 1..MaxAddress, code \in DevilCode, num_registers \in RegCounts :
          \E r \in {Devil_execute(devil, sender, code, num_registers)} :
             /\ devil' = r.devil
             /\ reply' = Called("execute", sender, 0, code, << >>, r)
    /\ UNCHANGED <<vio, frames, status, error, vio0, written, order>>

DevilNext ==
    \/ SetOwner
    \/ Submit
    \/ Get
    \/ DevilExecute

\* The contracts start with their storage zeroed, next to a Program that
\* stays idle over an empty store.
ContractInit == Init /\ vio = EmptyStore

DevilSpec == ContractInit /\ [][DevilNext]_vars

----------------------------------------------------------------------------
(* The Dior contract: the accounting of one IndexOrder.  An expect that    *)
(* fails panics: the call aborts and its writes are reverted.              *)

\* Bound of the inputs: the largest collateral and quantity of a call next
\* to Amount::MAX, and the amount held, engaged, spent and filled up to
\* which an order takes a call that adds to it.
MaxCollateral == 2

Aborted(o) == [res |-> "Panic", err |-> "", v |-> << >>, order |-> o]

get_remaining_amount(o) ==
    LET sum == checked_add(o.collateral_spent, o.collateral_engaged)
    IN  IF sum.tag # "Some" THEN Panicked
        ELSE LET remaining_amount == checked_sub(o.collateral_amount, sum.v)
             IN  IF remaining_amount.tag # "Some" THEN Panicked
                 ELSE remaining_amount

submit_new(o, collateral_amount) ==
    LET new_amount == checked_add(o.collateral_amount, collateral_amount)
    IN  IF new_amount.tag # "Some" THEN Aborted(o)
        ELSE [res |-> "Ok", err |-> "", v |-> << >>,
              order |-> [o EXCEPT !.collateral_amount = new_amount.v]]

\* A variant the accounting tells from engage: all that was asked for is
\* engaged.
engage_all(o, collateral_amount) ==
    LET new_engaged == checked_add(o.collateral_engaged, collateral_amount)
    IN  IF new_engaged.tag # "Some" THEN Aborted(o)
        ELSE [res |-> "Ok", err |-> "", v |-> collateral_amount,
              order |-> [o EXCEPT !.collateral_engaged = new_engaged.v]]

engage(o, collateral_amount) ==
    LET remaining == get_remaining_amount(o)
    IN  IF remaining.tag # "Some" THEN Aborted(o)
        ELSE LET new_engagement == amount_min(collateral_amount, remaining.v)
                 new_engaged == checked_add(o.collateral_engaged, new_engagement)
             IN  IF new_engaged.tag # "Some" THEN Aborted(o)
                 ELSE [res |-> "Ok", err |-> "", v |-> new_engagement,
                       order |-> [o EXCEPT !.collateral_engaged = new_engaged.v]]

fill(o, collateral_amount, quantity_filled) ==
    LET new_engaged == checked_sub(o.collateral_engaged, collateral_amount)
        new_spent == checked_add(o.collateral_spent, collateral_amount)
        new_total_quantity_filled == checked_add(o.quantity_filled, quantity_filled)
    IN  IF new_engaged.tag # "Some" THEN Aborted(o)
        ELSE IF new_spent.tag # "Some" THEN Aborted(o)
        ELSE IF new_total_quantity_filled.tag # "Some" THEN Aborted(o)
        ELSE [res |-> "Ok", err |-> "", v |-> << >>,
              order |-> [o EXCEPT !.collateral_engaged = new_engaged.v,
                                  !.collateral_spent = new_spent.v,
                                  !.quantity_filled = new_total_quantity_filled.v]]

Collaterals == {Amt(n) : n \in 0..MaxCollateral} \cup {MAX}
Quantities  == {ZERO, Amt(MaxCollateral), MAX}

OrderSubmitNew ==
    /\ LLe(order.collateral_amount, Amt(MaxCollateral))
    /\ \E collateral_amount \in Collaterals :
          LET r == submit_new(order, collateral_amount)
          IN  /\ order' = r.order
              /\ reply' = Called("submit_new", 0, 0, collateral_amount, << >>, r)
    /\ UNCHANGED <<vio, frames, status, error, vio0, written, devil>>

OrderEngage ==
    /\ LLe(order.collateral_engaged, Amt(MaxCollateral))
    /\ \E collateral_amount \in Collaterals :
          LET r == engage(order, collateral_amount)
          IN  /\ order' = r.order
              /\ reply' = Called("engage", 0, 0, collateral_amount, << >>, r)
    /\ UNCHANGED <<vio, frames, status, error, vio0, written, devil>>

OrderFill ==
    /\ LLe(order.quantity_filled, Amt(MaxCollateral))
    /\ LLe(order.collateral_spent, Amt(MaxCollateral))
    /\ \E collateral_amount \in Collaterals, quantity_filled \in Quantities :
          LET r == fill(order, collateral_amount, quantity_filled)
          IN  /\ order' = r.order
              /\ reply' = Called("fill", 0, 0, collateral_amount, quantity_filled, r)
    /\ UNCHANGED <<vio, frames, status, error, vio0, written, devil>>

DiorNext ==
    \/ OrderSubmitNew
    \/ OrderEngage
    \/ OrderFill

DiorSpec == ContractInit /\ [][DiorNext]_vars

----------------------------------------------------------------------------
(* Properties of Program::execute.                                         *)

Frames == 1..Len(frames)

\* The running frame is at an instruction named in ops, decoded in full.
At(ops) == Running /\ Decoded(Cur, ops)

\* C1: every invocation of execute ends by returning Ok or Err with one of
\* the nine ErrorCodes, and none ends in an abort of the host: not on code
\* that ends inside an instruction, not on jadd with only its two vectors
\* on the stack, not on code bytes whose length is no multiple of 16, not
\* on a division by zero.
C1_ReturnsOkOrErrorCode ==
    /\ status # "abort"
    /\ status = "err" => error \in ErrorCodes

\* C2: every invocation of execute ends by returning Ok or an error, for
\* every program and store: no activation of a stored program is ever
\* nested in an activation with the same input (code, Stack and store),
\* which execute_with_stack, a function of its input, nests in itself
\* until the stack of the thread overflows and the process is aborted.
C2_NoActivationNestedInItself == ~(status = "abort" /\ error = "StackExhausted")

\* C3: when an invocation returns an error, the store holds what it held
\* when the invocation began.
C3_ErrorLeavesStoreAsItWas == status = "err" => vio = vio0

\* C6: no slot of the stack of any frame ever holds Operand::None.
C6_NoNoneOnAnyStack ==
    \A i \in Frames :
        \A j \in 1..Len(frames[i].st.stack) : frames[i].st.stack[j].kind # "None"

\* The map of the store an LD* or ST* opcode names, and the kind of operand
\* it moves.
MapOf(op) ==
    IF op \in {OP_LDL, OP_STL} THEN "labels"
    ELSE IF op \in {OP_LDV, OP_STV} THEN "vectors" ELSE "scalars"

KindOf(op) ==
    IF op \in {OP_LDL, OP_STL} THEN "Labels"
    ELSE IF op \in {OP_LDV, OP_STV} THEN "Vector" ELSE "Scalar"

Maps == {"labels", "vectors", "scalars"}

\* The store after the step is the store before it with x under key id of
\* map m, and nothing else different.
WritesOnly(m, id, x) ==
    /\ DOMAIN vio'[m] = DOMAIN vio[m] \cup {id}
    /\ vio'[m][id] = x
    /\ \A k \in DOMAIN vio[m] \ {id} : vio'[m][k] = vio[m][k]
    /\ \A n \in Maps \ {m} : vio'[n] = vio[n]

\* C4: the store changes only in a step that executes STL, STV or STS with
\* an operand of its kind on top of the stack, and such a step pops that
\* operand and writes it under the key of the instruction, changing nothing
\* else in the store; every other step (LD*, arithmetic on a loaded value,
\* register moves, B, FOLD) leaves the store as it is.
C4_OnlyStoresWriteTheStore ==
    [][ LET stores == /\ At(OpsStore)
                      /\ Cur.st.stack # << >>
                      /\ Top(Cur.st).kind = KindOf(op_code_at(Cur))
        IN  /\ vio' # vio => stores
            /\ stores =>
                 /\ WritesOnly(MapOf(op_code_at(Cur)), ArgOf(Cur, 1), Top(Cur.st).v)
                 /\ SameOperands(frames'[Len(frames)].st.stack,
                                 SubSeq(Cur.st.stack, 1, Len(Cur.st.stack) - 1))
      ]_vars

\* A vector loaded from key 1 was doubled on the stack and the store kept
\* the vector it had; then STV 1 stored the doubled vector and nothing else
\* of the store changed.
C4_Witness ==
    /\ vio0 = FullStore
    /\ status = "ok"
    /\ frames[1].code = <<OP_LDV, 1, OP_ADD, 0, OP_STV, 1, OP_LDV, 1>>
    /\ vio.vectors[1] = <<Amt(2), Amt(4), Amt(6)>>
    /\ vio.vectors[2] = vio0.vectors[2]
    /\ vio.labels = vio0.labels
    /\ vio.scalars = vio0.scalars

\* C5: a load reads the last store: when the running frame, of the program
\* or of a subprogram, executes LDL, LDV or LDS of a key that an earlier
\* STL, STV or STS of the invocation stored, the load succeeds and pushes
\* an operand of the kind of the instruction holding the value stored last
\* under that key.
C5_LoadReadsTheLastStore ==
    [][ LET op == op_code_at(Cur)
            id == ArgOf(Cur, 1)
        IN  (At(OpsLoad) /\ id \in DOMAIN written[MapOf(op)]) =>
               /\ status' = "running"
               /\ LET st == frames'[Len(frames)].st.stack
                  IN  /\ Len(st) = Len(Cur.st.stack) + 1
                      /\ st[Len(st)].kind = KindOf(op)
                      /\ st[Len(st)].v = written[MapOf(op)][id]
      ]_vars

\* A subprogram called by B has loaded the vector the program stored
\* under key 1 before the call, which is not the vector the store began
\* with.
C5_Witness ==
    /\ Running
    /\ Len(frames) = 2
    /\ Cur.kind = "B"
    /\ Cur.code = PrgReadsV1
    /\ Cur.pc = 2
    /\ 1 \in DOMAIN written.vectors
    /\ Top(Cur.st).kind = "Vector"
    /\ Top(Cur.st).v = written.vectors[1]
    /\ Top(Cur.st).v # vio0.vectors[1]

\* The frame the running frame was called from, and argument k of the B or
\* FOLD that called it, the instruction before the caller's pc.
Caller == frames[Len(frames) - 1]
CalledWith(f, k) == f.code[f.pc - 4 + k]

\* The step starts a callee of the B or FOLD the running frame is at; the
\* step ends the callee of the running frame and resumes its caller.
Calls(ops) == At(ops) /\ Len(frames') = Len(frames) + 1
Returns(kind) ==
    /\ Running /\ AtEnd /\ Cur.kind = kind
    /\ Len(frames') = Len(frames) - 1

\* C7: a B that starts its callee takes exactly the top n_in operands off
\* the caller's stack and the callee's stack is those operands in the same
\* order; when the callee of a B ends and the caller resumes, the caller's
\* stack is what it was with exactly the top n_out operands of the callee
\* appended in their order, so its depth is the depth before the B plus
\* n_out - n_in.
C7_BranchMovesOperandsInOrder ==
    [][ /\ Calls({OP_B}) =>
             LET n_in  == ArgOf(Cur, 2)
                 depth == Len(Cur.st.stack)
             IN  /\ depth >= n_in
                 /\ SameOperands(frames'[Len(frames')].st.stack,
                                 SubSeq(Cur.st.stack, depth - n_in + 1, depth))
                 /\ SameOperands(frames'[Len(frames)].st.stack,
                                 SubSeq(Cur.st.stack, 1, depth - n_in))
        /\ Returns("B") =>
             LET n_in  == CalledWith(Caller, 2)
                 n_out == CalledWith(Caller, 3)
                 depth == Len(Cur.st.stack)
                 now   == frames'[Len(frames')].st.stack
             IN  /\ depth >= n_out
                 /\ SameOperands(now, Caller.st.stack
                                      \o SubSeq(Cur.st.stack, depth - n_out + 1, depth))
                 /\ n_in = Len(Cur.entry.st.stack)
                 /\ Len(now) - (Len(Caller.st.stack) + Len(Cur.entry.st.stack))
                       = n_out - n_in
      ]_vars

\* B 14 2 2 0 gave the scalars 0 and 3 to a program that swaps them and
\* took both back: 3 below 0.
C7_Witness ==
    /\ status = "ok"
    /\ frames[1].code = <<OP_IMMS, 0, OP_IMMS, 3, OP_B, 14, 2, 2, 0>>
    /\ frames[1].st.stack = <<OpScalar(Amt(3)), OpScalar(ZERO)>>

\* C8: the callee a B or FOLD starts has exactly n_reg registers, all
\* None, and a stack of the n_in transferred operands only, and the caller
\* keeps its registers and the stack below them; no step of a frame changes
\* the Stack of a frame below it; and when the callee ends, the caller
\* resumes with its registers and every slot of its stack as they were.
C8_FramesArePrivate ==
    [][ /\ Calls(OpsCall) =>
             LET n_in   == ArgOf(Cur, 2)
                 n_reg  == ArgOf(Cur, 4)
                 taken  == IF op_code_at(Cur) = OP_FOLD THEN 1 ELSE 0
                 below  == Len(Cur.st.stack) - taken - n_in
                 callee == frames'[Len(frames')]
                 caller == frames'[Len(frames)]
             IN  /\ Len(callee.st.registry) = n_reg
                 /\ \A i \in 1..n_reg : callee.st.registry[i].kind = "None"
                 /\ SameOperands(callee.st.stack,
                                 SubSeq(Cur.st.stack, below + 1, below + n_in))
                 /\ SameOperands(caller.st.registry, Cur.st.registry)
                 /\ SameOperands(caller.st.stack, SubSeq(Cur.st.stack, 1, below))
        /\ Len(frames') >= Len(frames) =>
             \A i \in 1..(Len(frames) - 1) : SameStack(frames'[i].st, frames[i].st)
        /\ (Returns("B") \/ Returns("FOLD")) =>
             LET caller == frames'[Len(frames')]
             IN  /\ SameOperands(caller.st.registry, Caller.st.registry)
                 /\ SameOperands(SubSeq(caller.st.stack, 1, Len(Caller.st.stack)),
                                 Caller.st.stack)
                 /\ \A i \in 1..(Len(frames') - 1) :
                       SameStack(frames'[i].st, frames[i].st)
      ]_vars

\* The callee of B 16 1 1 1 has put the scalar 3 in its register 0; the
\* caller's register 0 holds the scalar 1 and its stack the scalar 2.
C8_Witness ==
    /\ Running
    /\ Len(frames) = 2
    /\ Cur.code = PrgRegs
    /\ Cur.pc = 2
    /\ Len(Cur.st.registry) = 1
    /\ SameOperand(Cur.st.registry[1], OpScalar(Amt(3)))
    /\ Len(frames[1].st.registry) = MaxReg
    /\ SameOperand(frames[1].st.registry[1], OpScalar(Amt(1)))
    /\ Len(frames[1].st.stack) = 1
    /\ SameOperand(frames[1].st.stack[1], OpScalar(Amt(2)))

\* C9 as stated: a B whose caller holds fewer than n_in operands fails with
\* StackUnderflow, whatever its program key.
C9_UnderflowWhateverTheKey ==
    [][ (At({OP_B}) /\ Len(Cur.st.stack) < ArgOf(Cur, 2)) =>
            status' = "err" /\ error' = "StackUnderflow"
      ]_vars

\* C9, amended: a B of a key the store holds labels under, whose caller
\* holds fewer than n_in operands, fails with StackUnderflow with no callee
\* frame started and the store untouched; and a callee of B that ends with
\* fewer than n_out operands makes the B fail with StackUnderflow.
C9_BranchUnderflows ==
    [][ /\ ( /\ At({OP_B})
             /\ ArgOf(Cur, 1) \in DOMAIN vio.labels
             /\ Len(Cur.st.stack) < ArgOf(Cur, 2) ) =>
               /\ status' = "err" /\ error' = "StackUnderflow"
               /\ Len(frames') = Len(frames)
               /\ vio' = vio
        /\ ( /\ Running /\ AtEnd /\ Cur.kind = "B"
             /\ Len(Cur.st.stack) < CalledWith(Caller, 3) ) =>
               /\ status' = "err" /\ error' = "StackUnderflow"
               /\ vio' = vio
      ]_vars

\* A B of a stored program has failed with StackUnderflow on a caller that
\* holds two operands, fewer than n_in, no callee started.
C9_Witness ==
    /\ status = "err" /\ error = "StackUnderflow"
    /\ Len(frames) = 1
    /\ Decoded(Cur, {OP_B})
    /\ ArgOf(Cur, 1) \in DOMAIN vio.labels
    /\ Len(Cur.st.stack) < ArgOf(Cur, 2)
    /\ Len(Cur.st.stack) = 2

\* C10: a FOLD of a stored program whose source, the operand on top of the
\* stack, is neither Labels nor Vector fails with InvalidOperand.
C10_FoldOfOtherSourceIsInvalidOperand ==
    [][ ( /\ At({OP_FOLD})
          /\ ArgOf(Cur, 1) \in DOMAIN vio.labels
          /\ Cur.st.stack # << >>
          /\ Top(Cur.st).kind \notin {"Labels", "Vector"} ) =>
            status' = "err" /\ error' = "InvalidOperand"
      ]_vars

\* The program that puts Scalar 0 and the vector stored under k on the
\* stack and folds the program under key 10 over the vector, one operand
\* in and one out.
FoldSumProgram(k) == <<OP_IMMS, 0, OP_LDV, k, OP_FOLD, 10, 1, 1, 0>>

\* C11: fold-sum law: with the program ADD 1 stored under key 10, an
\* invocation of FoldSumProgram(k) over a stored vector V ends with Ok or
\* with an error; when it ends with Ok, VSUM on V succeeds and the stack
\* holds exactly the Scalar VSUM pushes; when it ends with an error, the
\* error is MathOverflow and VSUM on V fails with MathOverflow.
C11_FoldSumLaw ==
    \A k \in DOMAIN vio0.vectors :
        ( /\ status \in {"ok", "err", "abort"}
          /\ frames # << >>
          /\ frames[1].code = FoldSumProgram(k)
          /\ 10 \in DOMAIN vio0.labels
          /\ vio0.labels[10] = <<OP_ADD, 1>> ) =>
            LET r == vsum([stack |-> <<OpVector(vio0.vectors[k])>>,
                           registry |-> << >>])
            IN  /\ status \in {"ok", "err"}
                /\ status = "ok" =>
                     /\ r.res = "Ok"
                     /\ Len(frames[1].st.stack) = 1
                     /\ SameOperand(frames[1].st.stack[1], r.st.stack[1])
                /\ status = "err" =>
                     /\ error = "MathOverflow"
                     /\ r.res = "MathOverflow"

\* The fold of ADD 1 over the vector 1, 2, 3 has ended with the Scalar 6.
C11_Witness ==
    /\ status = "ok"
    /\ frames[1].code = FoldSumProgram(1)
    /\ vio0.vectors[1] = <<Amt(1), Amt(2), Amt(3)>>
    /\ frames[1].st.stack = <<OpScalar(Amt(6))>>

Arith == {OP_ADD, OP_SUB, OP_MUL, OP_DIV}

\* C12: a step that executes add, sub, mul, div, min or max with pos > 0
\* and succeeds changes only the operand on top of the stack: the depth,
\* every slot below the top (the operand at depth pos among them) and every
\* register are as before, and the top keeps its kind, a Vector its length.
C12_PairedOpChangesOnlyTOS ==
    [][ ( /\ At(Arith \cup {OP_MIN, OP_MAX})
          /\ ArgOf(Cur, 1) > 0
          /\ status' = "running" ) =>
            LET old == Cur.st
                new == frames'[Len(frames)].st
                d   == Len(old.stack)
            IN  /\ Len(frames') = Len(frames)
                /\ d >= 2
                /\ Len(new.stack) = d
                /\ SameOperands(SubSeq(new.stack, 1, d - 1),
                                SubSeq(old.stack, 1, d - 1))
                /\ SameOperands(new.registry, old.registry)
                /\ old.stack[d].kind \in {"Vector", "Scalar"}
                /\ new.stack[d].kind = old.stack[d].kind
                /\ old.stack[d].kind = "Vector" =>
                      Len(new.stack[d].v) = Len(old.stack[d].v)
      ]_vars

\* ADD 1 has added the Scalar 5 below it to the Vector 1, 2, 3 on top.
C12_Witness ==
    /\ status = "ok"
    /\ frames[1].code = <<OP_LDS, 1, OP_LDV, 1, OP_ADD, 1>>
    /\ frames[1].st.stack =
          <<OpScalar(Amt(5)), OpVector(<<Amt(6), Amt(7), Amt(8)>>)>>

\* C13: self-op equivalence: where the running frame is at add, sub, mul
\* or div with pos = 0 and a Vector or Scalar on top of the stack, the
\* instruction has the outcome (Ok or the same error, and on Ok the same
\* top of stack) of LDD 0 followed by the same opcode with pos = 1, which
\* computes A o A through the checked primitive of Amount.
C13_SelfOpIsPairedOpOnACopy ==
    ( /\ At(Arith)
      /\ ArgOf(Cur, 1) = 0
      /\ Cur.st.stack # << >>
      /\ Top(Cur.st).kind \in {"Vector", "Scalar"} ) =>
        LET self == Internal(Cur.st, op_code_at(Cur), 0, 0)
            pair == Internal(ldd(Cur.st, 0).st, op_code_at(Cur), 1, 0)
        IN  /\ self.res = pair.res
            /\ self.res = "Ok" => SameOperand(Top(self.st), Top(pair.st))

\* The operand at depth pos of the running frame's stack (TOS is depth 0).
Below(pos) == Cur.st.stack[Len(Cur.st.stack) - pos]

\* The kinds of TOS and of the operand at depth pos.
PairKinds(pos) == <<Top(Cur.st).kind, Below(pos).kind>>

\* C14: where the running frame is at add, sub, mul or div with pos > 0
\* and an operand at depth pos: the step fails with NotAligned exactly when
\* both operands are Vectors of different lengths, and with InvalidOperand
\* exactly when the pair of kinds is none of Vector/Vector, Vector/Scalar
\* and Scalar/Scalar; and either failure leaves every slot of the stack,
\* the top included, as it was.
C14_ShapeErrorsLeaveTOS ==
    [][ ( /\ At(Arith)
          /\ ArgOf(Cur, 1) > 0
          /\ Len(Cur.st.stack) > ArgOf(Cur, 1) ) =>
            LET pos      == ArgOf(Cur, 1)
                shapes   == {<<"Vector", "Vector">>, <<"Vector", "Scalar">>,
                             <<"Scalar", "Scalar">>}
                unequal  == /\ PairKinds(pos) = <<"Vector", "Vector">>
                            /\ Len(Top(Cur.st).v) # Len(Below(pos).v)
                failed(e) == status' = "err" /\ error' = e
            IN  /\ unequal <=> failed("NotAligned")
                /\ PairKinds(pos) \notin shapes <=> failed("InvalidOperand")
                /\ (failed("NotAligned") \/ failed("InvalidOperand")) =>
                      SameOperands(frames'[Len(frames)].st.stack, Cur.st.stack)
      ]_vars

\* ADD 1 on the Vector 4 above the Vector 1, 2, 3 has failed with
\* NotAligned and both Vectors are on the stack as they were.
C14_Witness ==
    /\ status = "err" /\ error = "NotAligned"
    /\ frames[1].code = <<OP_LDV, 1, OP_LDV, 2, OP_ADD, 1>>
    /\ frames[1].st.stack =
          <<OpVector(<<Amt(1), Amt(2), Amt(3)>>), OpVector(<<Amt(4)>>)>>

\* C15: a sub with pos > 0 that fails because a subtrahend is larger than
\* its minuend fails with MathUnderflow whatever the shapes of its
\* operands; no difference exceeds 128 bits, so no sub with pos > 0 ends an
\* invocation with MathOverflow.
C15_FailedSubtractionIsUnderflow ==
    ( /\ status = "err"
      /\ frames # << >>
      /\ Decoded(Cur, {OP_SUB})
      /\ ArgOf(Cur, 1) > 0 ) => error # "MathOverflow"

\* C16: where the running frame is at min or max, the instruction succeeds
\* exactly where add with the same pos on the same stack finds operands it
\* accepts (add succeeds or fails with MathOverflow only), and it never
\* fails with MathOverflow or MathUnderflow.
C16_MinMaxAcceptWhatAddAccepts ==
    At({OP_MIN, OP_MAX}) =>
        LET pos == ArgOf(Cur, 1)
            a   == add(Cur.st, pos)
            m   == Internal(Cur.st, op_code_at(Cur), pos, 0)
        IN  /\ a.res \in {"Ok", "MathOverflow"} <=> m.res = "Ok"
            /\ m.res \notin {"MathOverflow", "MathUnderflow"}

StrictlyAscending(l) == \A i \in 1..(Len(l) - 1) : l[i] < l[i + 1]

Elems(l) == {l[i] : i \in 1..Len(l)}

\* C17: a step that executes lunn with pos > 0 where the Labels A on top of
\* the stack and the Labels B at depth pos are both strictly ascending
\* succeeds and leaves on top of the stack Labels that are strictly
\* ascending and whose elements are exactly those of A and those of B, an
\* empty A or B included.
C17_LunionIsSortedUnion ==
    [][ ( /\ At({OP_LUNN})
          /\ ArgOf(Cur, 1) > 0
          /\ Len(Cur.st.stack) > ArgOf(Cur, 1)
          /\ PairKinds(ArgOf(Cur, 1)) = <<"Labels", "Labels">>
          /\ StrictlyAscending(Top(Cur.st).v)
          /\ StrictlyAscending(Below(ArgOf(Cur, 1)).v) ) =>
            /\ status' = "running"
            /\ Len(frames') = Len(frames)
            /\ LET u == Top(frames'[Len(frames)].st)
               IN  /\ u.kind = "Labels"
                   /\ StrictlyAscending(u.v)
                   /\ Elems(u.v) = Elems(Top(Cur.st).v)
                                     \cup Elems(Below(ArgOf(Cur, 1)).v)
      ]_vars

\* LUNN 1 has merged 2, 3, 7 on top with 1, 3, 5 below it.
C17_Witness ==
    /\ status = "ok"
    /\ frames[1].code = <<OP_LDL, 1, OP_LDL, 4, OP_LUNN, 1>>
    /\ Len(frames[1].st.stack) >= 1
    /\ Top(frames[1].st) = OpLabels(<<1, 2, 3, 5, 7>>)

\* C18: a step that executes lunn and succeeds replaces the Labels on top of
\* the stack: the depth is as before and every slot below the top, the
\* Labels at depth pos among them, is as before.
C18_LunionReplacesTOS ==
    [][ ( /\ At({OP_LUNN})
          /\ status' = "running" ) =>
            LET old == Cur.st
                new == frames'[Len(frames)].st
                d   == Len(old.stack)
            IN  /\ Len(new.stack) = d
                /\ SameOperands(SubSeq(new.stack, 1, d - 1),
                                SubSeq(old.stack, 1, d - 1))
      ]_vars

\* C18, as the code has it: a step that executes lunn and succeeds pushes
\* the union: the depth is one more than before, every slot the stack had,
\* the Labels formerly on top and the Labels at depth pos among them, is as
\* before, and the new top is Labels.
C18_LunionPushesUnion ==
    [][ ( /\ At({OP_LUNN})
          /\ status' = "running" ) =>
            LET old == Cur.st
                new == frames'[Len(frames)].st
                d   == Len(old.stack)
            IN  /\ Len(frames') = Len(frames)
                /\ d >= 2
                /\ Len(new.stack) = d + 1
                /\ SameOperands(SubSeq(new.stack, 1, d), old.stack)
                /\ new.stack[d + 1].kind = "Labels"
                /\ SameOperands(new.registry, old.registry)
      ]_vars

\* LUNN 1 has left both Labels where they were and the union above them.
C18_Witness ==
    /\ status = "ok"
    /\ frames[1].code = <<OP_LDL, 4, OP_LDL, 1, OP_LUNN, 1>>
    /\ frames[1].st.stack = <<OpLabels(<<2, 3, 7>>), OpLabels(<<1, 3, 5>>),
                              OpLabels(<<1, 2, 3, 5, 7>>)>>

\* The running frame is at jadd with Labels at both of its positions and
\* Vectors in the two slots on top of the stack.
AtJoin ==
    /\ At({OP_JADD})
    /\ ArgOf(Cur, 1) >= 2
    /\ ArgOf(Cur, 2) >= 2
    /\ Len(Cur.st.stack) > ArgOf(Cur, 1)
    /\ Len(Cur.st.stack) > ArgOf(Cur, 2)
    /\ PairKinds(1) = <<"Vector", "Vector">>
    /\ Below(ArgOf(Cur, 1)).kind = "Labels"
    /\ Below(ArgOf(Cur, 2)).kind = "Labels"

CarrierLabels == Below(ArgOf(Cur, 1)).v

AddendLabels == Below(ArgOf(Cur, 2)).v

\* No sum of a value of va and the value of vb under the same label exceeds
\* 128 bits.
SumsFit(la, va, lb, vb) ==
    \A i \in 1..Len(la) : \A j \in 1..Len(lb) :
        la[i] = lb[j] => checked_add(va[i], vb[j]).tag = "Some"

\* v is va with, under every label of la that lb has too, the value of vb
\* under that label added.
IsLeftOuterSum(v, la, va, lb, vb) ==
    /\ Len(v) = Len(la)
    /\ \A i \in 1..Len(la) :
          IF \E j \in 1..Len(lb) : lb[j] = la[i]
          THEN v[i] = checked_add(va[i],
                          vb[CHOOSE j \in 1..Len(lb) : lb[j] = la[i]]).v
          ELSE v[i] = va[i]

\* C19: a step that executes jadd where the Vector below the top is as long
\* as the Labels A at posA, the Vector on top is as long as the Labels B at
\* posB, A and B are strictly ascending, every label of B is in A and no
\* sum exceeds 128 bits succeeds and leaves on top a Vector of length |A|
\* whose i-th entry is VA[i] + VB[j] where A[i] = B[j] and VA[i] where B
\* has no such label, VA the Vector below the top and VB the one on top.
C19_JaddCarrierIsBelowTOS ==
    [][ ( /\ AtJoin
          /\ Len(Below(1).v) = Len(CarrierLabels)
          /\ Len(Top(Cur.st).v) = Len(AddendLabels)
          /\ StrictlyAscending(CarrierLabels)
          /\ StrictlyAscending(AddendLabels)
          /\ Elems(AddendLabels) \subseteq Elems(CarrierLabels)
          /\ SumsFit(CarrierLabels, Below(1).v, AddendLabels, Top(Cur.st).v) ) =>
            /\ status' = "running"
            /\ Len(frames') = Len(frames)
            /\ LET r == Top(frames'[Len(frames)].st)
               IN  /\ r.kind = "Vector"
                   /\ IsLeftOuterSum(r.v, CarrierLabels, Below(1).v,
                                     AddendLabels, Top(Cur.st).v)
      ]_vars

\* C20: a step that executes jadd where the Labels B at posB have a label
\* that the Labels A at posA lack, both Vectors being as long as A and as
\* B, fails with MathUnderflow and leaves no result on the stack.
C20_AddendOutsideCarrierIsUnderflow ==
    [][ ( /\ AtJoin
          /\ Len(Below(1).v) = Len(CarrierLabels)
          /\ Len(Top(Cur.st).v) = Len(CarrierLabels)
          /\ Len(AddendLabels) = Len(CarrierLabels)
          /\ ~(Elems(AddendLabels) \subseteq Elems(CarrierLabels)) ) =>
            /\ status' = "err"
            /\ error' = "MathUnderflow"
      ]_vars

\* C21: a step that executes jadd and succeeds changes only the operand on
\* top of the stack: the depth is as before and every slot below the top,
\* the Vector below the top and both Labels among them, is as before.
C21_JaddReplacesOnlyTOS ==
    [][ ( /\ At({OP_JADD})
          /\ status' = "running" ) =>
            LET old == Cur.st
                new == frames'[Len(frames)].st
                d   == Len(old.stack)
            IN  /\ Len(new.stack) = d
                /\ SameOperands(SubSeq(new.stack, 1, d - 1),
                                SubSeq(old.stack, 1, d - 1))
      ]_vars

\* C21, as the code has it: a step that executes jadd and succeeds takes
\* both Vectors off the stack and pushes the result Vector: the depth is
\* one less than before, every slot below the two Vectors, both Labels
\* among them, is as before, and every register is as before.
C21_JaddPopsBothVectors ==
    [][ ( /\ At({OP_JADD})
          /\ status' = "running" ) =>
            LET old == Cur.st
                new == frames'[Len(frames)].st
                d   == Len(old.stack)
            IN  /\ Len(frames') = Len(frames)
                /\ d >= 3
                /\ Len(new.stack) = d - 1
                /\ SameOperands(SubSeq(new.stack, 1, d - 2),
                                SubSeq(old.stack, 1, d - 2))
                /\ new.stack[d - 1].kind = "Vector"
                /\ Below(ArgOf(Cur, 1)).kind = "Labels"
                /\ Below(ArgOf(Cur, 2)).kind = "Labels"
                /\ SameOperands(new.registry, old.registry)
      ]_vars

\* JADD 3 2 has left the two Labels and, in place of the two Vectors, the sum.
C21_Witness ==
    /\ status = "ok"
    /\ frames[1].code = <<OP_LDL, 1, OP_LDL, 4, OP_LDV, 1, OP_LDV, 1, OP_JADD, 3, 2>>
    /\ frames[1].st.stack = <<OpLabels(<<1, 3, 5>>), OpLabels(<<2, 3, 7>>),
                              OpVector(<<Amt(1), Amt(4), Amt(3)>>)>>

\* C22: a step that executes jadd with posA = posB, where the Labels at
\* that depth are as long as each of the two Vectors on top of the stack,
\* succeeds exactly when add 1 on the same stack succeeds, then with the
\* Vector add 1 computes on top, and fails with MathOverflow exactly when
\* add 1 does, whatever the labels are.
C22_JaddUnderOneLabelsIsAdd ==
    [][ ( /\ AtJoin
          /\ ArgOf(Cur, 1) = ArgOf(Cur, 2)
          /\ Len(Top(Cur.st).v) = Len(CarrierLabels)
          /\ Len(Below(1).v) = Len(CarrierLabels) ) =>
            LET a == add(Cur.st, 1)
            IN  \/ /\ status' = "running"
                   /\ a.res = "Ok"
                   /\ SameOperand(Top(frames'[Len(frames)].st), Top(a.st))
                \/ /\ status' = "err"
                   /\ error' = "MathOverflow"
                   /\ a.res = "MathOverflow"
      ]_vars

\* JADD 2 2 under the descending Labels 50, 1 has added 1, 2 to 1, 2.
C22_Witness ==
    /\ status = "ok"
    /\ frames[1].code = <<OP_LDL, 10, OP_IMMS, 1, OP_IMMS, 2, OP_PKV, 2,
                          OP_LDD, 0, OP_JADD, 2, 2>>
    /\ frames[1].st.stack = <<OpLabels(<<OP_ADD, 1>>),
                              OpVector(<<Amt(2), Amt(4)>>)>>

\* The top n operands of the running frame's stack, the deepest first.
TopN(n) == SubSeq(Cur.st.stack, Len(Cur.st.stack) - n + 1, Len(Cur.st.stack))

SameLength(seq) == \A k \in 1..Len(seq) : Len(seq[k].v) = Len(seq[1].v)

\* C23: a step that executes T n with n >= 2 on a stack of at least n
\* operands, the top n of them Vectors v_1..v_n of one length r, v_1 the
\* deepest, succeeds, leaves the stack below the n Vectors as it was and
\* puts r Vectors of length n in their place, the i-th of them holding
\* v_1[i], ..., v_n[i], so that the last row is on top; where the top n are
\* not Vectors of one length the step fails with InvalidOperand.
C23_TransposeLaysRowsOut ==
    [][ ( /\ At({OP_T})
          /\ ArgOf(Cur, 1) >= 2
          /\ Len(Cur.st.stack) >= ArgOf(Cur, 1) ) =>
            LET n    == ArgOf(Cur, 1)
                old  == Cur.st
                base == Len(old.stack) - n
                cols == TopN(n)
            IN  IF AllKind(cols, "Vector") /\ SameLength(cols)
                THEN LET r   == Len(cols[1].v)
                         new == frames'[Len(frames)].st
                     IN  /\ status' = "running"
                         /\ Len(frames') = Len(frames)
                         /\ Len(new.stack) = base + r
                         /\ SameOperands(SubSeq(new.stack, 1, base),
                                         SubSeq(old.stack, 1, base))
                         /\ \A i \in 1..r :
                               /\ new.stack[base + i].kind = "Vector"
                               /\ Len(new.stack[base + i].v) = n
                               /\ \A k \in 1..n :
                                     new.stack[base + i].v[k] = cols[k].v[i]
                ELSE /\ status' = "err"
                     /\ error' = "InvalidOperand"
      ]_vars

\* T 3 has laid the rows of 1 2 3, MAX 0 ONE, 1 2 3 out above the Scalar 7.
C23_Witness ==
    /\ status = "running"
    /\ Cur.code = <<OP_IMMS, 7, OP_LDV, 1, OP_LDV, 3, OP_LDV, 1, OP_T, 3, OP_T, 3>>
    /\ Cur.pc = 10
    /\ Cur.st.stack = <<OpScalar(Amt(7)),
                        OpVector(<<Amt(1), MAX, Amt(1)>>),
                        OpVector(<<Amt(2), ZERO, Amt(2)>>),
                        OpVector(<<Amt(3), ONE, Amt(3)>>)>>

\* The running frame is at T n with at least n operands on its stack, the
\* top n of them Vectors of one length.
AtMatrix ==
    /\ At({OP_T})
    /\ ArgOf(Cur, 1) >= 1
    /\ Len(Cur.st.stack) >= ArgOf(Cur, 1)
    /\ AllKind(TopN(ArgOf(Cur, 1)), "Vector")
    /\ SameLength(TopN(ArgOf(Cur, 1)))

Rows == Len(Top(Cur.st).v)

\* T n on the running frame's stack, then T over the rows that leaves.
TransposedTwice ==
    LET once == transpose(Cur.st, ArgOf(Cur, 1))
    IN  IF once.res # "Ok" THEN once ELSE transpose(once.st, Rows)

\* C24: where the running frame is at T n with n >= 1 and n Vectors of one
\* length r on top of its stack, T n followed by T r succeeds and leaves
\* the stack as it was before the two.
C24_TransposeTwiceRestores ==
    AtMatrix =>
        /\ TransposedTwice.res = "Ok"
        /\ SameStack(TransposedTwice.st, Cur.st)

\* C24, as the code has it: the same for n >= 2 and r >= 2; T 1 is unpk and
\* leaves Scalars, and n Vectors of length 0 leave no row at all.
C24_TransposeTwiceRestoresMatrix ==
    ( /\ AtMatrix
      /\ ArgOf(Cur, 1) >= 2
      /\ Rows >= 2 ) =>
        /\ TransposedTwice.res = "Ok"
        /\ SameStack(TransposedTwice.st, Cur.st)

\* T 3 and T 3 in a row have left the Scalar 7 and the three Vectors above
\* it as they were.
C24_Witness ==
    /\ status = "ok"
    /\ frames[1].code = <<OP_IMMS, 7, OP_LDV, 1, OP_LDV, 3, OP_LDV, 1, OP_T, 3, OP_T, 3>>
    /\ frames[1].st.stack = <<OpScalar(Amt(7)),
                              OpVector(<<Amt(1), Amt(2), Amt(3)>>),
                              OpVector(<<MAX, ZERO, ONE>>),
                              OpVector(<<Amt(1), Amt(2), Amt(3)>>)>>

\* C25: a step that executes pkv n (pkl n) on a stack that holds at least
\* n operands, n = 0 and an empty stack included, the top n of them Scalars
\* (Labels atoms), succeeds, takes those n operands off and pushes one
\* Vector (Labels) of their values, the deepest first and the former top
\* last, on a stack otherwise as before, which leaves depth - n + 1
\* operands; where one of the n operands is of another kind the step fails
\* with InvalidOperand.
C25_PackTakesTopNInOrder ==
    [][ ( /\ At({OP_PKV, OP_PKL})
          /\ Len(Cur.st.stack) >= ArgOf(Cur, 1) ) =>
            LET n     == ArgOf(Cur, 1)
                old   == Cur.st
                base  == Len(old.stack) - n
                taken == TopN(n)
                atom  == IF op_code_at(Cur) = OP_PKV THEN "Scalar" ELSE "Label"
                made  == IF op_code_at(Cur) = OP_PKV THEN "Vector" ELSE "Labels"
            IN  IF AllKind(taken, atom)
                THEN LET new == frames'[Len(frames)].st
                     IN  /\ status' = "running"
                         /\ Len(frames') = Len(frames)
                         /\ Len(new.stack) = base + 1
                         /\ SameOperands(SubSeq(new.stack, 1, base),
                                         SubSeq(old.stack, 1, base))
                         /\ new.stack[base + 1].kind = made
                         /\ Len(new.stack[base + 1].v) = n
                         /\ \A k \in 1..n : new.stack[base + 1].v[k] = taken[k].v
                ELSE /\ status' = "err"
                     /\ error' = "InvalidOperand"
      ]_vars

\* C26: a step that executes unpk with a Vector (Labels) of length k on top
\* of the stack succeeds, takes it off and pushes its k elements as Scalars
\* (Labels atoms), element 0 deepest and element k - 1 on top, on a stack
\* otherwise as before, so that the depth changes by k - 1, and for k >= 1
\* pkv k (pkl k) on the stack it leaves gives back the stack there was;
\* with a Scalar or a Labels atom on top the step fails with
\* InvalidOperand.
C26_UnpackLaysElementsOut ==
    [][ ( /\ At({OP_UNPK})
          /\ Cur.st.stack # << >>
          /\ Top(Cur.st).kind \in {"Vector", "Labels", "Scalar", "Label"} ) =>
            LET old  == Cur.st
                base == Len(old.stack) - 1
                k    == Len(Top(old).v)
                atom == IF Top(old).kind = "Vector" THEN "Scalar" ELSE "Label"
            IN  IF Top(old).kind \in {"Vector", "Labels"}
                THEN LET new  == frames'[Len(frames)].st
                         back == IF Top(old).kind = "Vector" THEN pkv(new, k)
                                 ELSE pkl(new, k)
                     IN  /\ status' = "running"
                         /\ Len(frames') = Len(frames)
                         /\ Len(new.stack) = base + k
                         /\ SameOperands(SubSeq(new.stack, 1, base),
                                         SubSeq(old.stack, 1, base))
                         /\ \A i \in 1..k :
                               /\ new.stack[base + i].kind = atom
                               /\ new.stack[base + i].v = Top(old).v[i]
                         /\ k >= 1 => back.res = "Ok" /\ SameStack(back.st, old)
                ELSE /\ status' = "err"
                     /\ error' = "InvalidOperand"
      ]_vars

\* UNPK has laid 1, 2, 3 out above the Scalar 7, the 3 on top.
C26_Witness ==
    /\ status = "running"
    /\ Cur.code = <<OP_IMMS, 7, OP_LDV, 1, OP_UNPK, OP_PKV, 3>>
    /\ Cur.pc = 5
    /\ Cur.st.stack = <<OpScalar(Amt(7)), OpScalar(Amt(1)), OpScalar(Amt(2)),
                        OpScalar(Amt(3))>>

\* C27: a step that executes pop n fails with StackUnderflow where n is
\* more than the depth of the stack and only there; for every n up to the
\* depth, n = 0 and an empty stack included, it succeeds and leaves the
\* stack without its top n operands, the others as they were.
C27_PopnUnderflowsOnlyBeyondDepth ==
    [][ At({OP_POP}) =>
            LET n   == ArgOf(Cur, 1)
                old == Cur.st
                d   == Len(old.stack)
            IN  IF n > d
                THEN /\ status' = "err"
                     /\ error' = "StackUnderflow"
                ELSE /\ status' = "running"
                     /\ SameOperands(frames'[Len(frames)].st.stack,
                                     SubSeq(old.stack, 1, d - n))
      ]_vars

\* C28: a frame has the registers it was created with, as many as the
\* caller's B or FOLD names, for as long as it lives. A step that executes
\* ldr r or str r with r no register of the frame fails with OutOfRange and
\* leaves the stack and every register as they were; str r with r a
\* register and an operand on the stack moves the top of the stack into
\* register r and leaves the rest as it was; ldr r with r a register pushes
\* what register r holds and leaves every register as it was.
C28_RegistersAreFixedAndChecked ==
    [][ /\ \A k \in Frames :
              k <= Len(frames') =>
                  Len(frames'[k].st.registry) = Len(frames[k].st.registry)
        /\ ( At(OpsCall) /\ Len(frames') = Len(frames) + 1 ) =>
              Len(frames'[Len(frames')].st.registry) = ArgOf(Cur, 4)
        /\ ( At({OP_LDR, OP_STR}) /\ ArgOf(Cur, 1) >= Len(Cur.st.registry) ) =>
              /\ status' = "err"
              /\ error' = "OutOfRange"
              /\ SameStack(frames'[Len(frames)].st, Cur.st)
        /\ ( /\ At({OP_STR})
             /\ ArgOf(Cur, 1) < Len(Cur.st.registry)
             /\ Cur.st.stack # << >> ) =>
              LET new == frames'[Len(frames)].st
                  d   == Len(Cur.st.stack)
              IN  /\ status' = "running"
                  /\ SameOperands(new.stack, SubSeq(Cur.st.stack, 1, d - 1))
                  /\ \A i \in 1..Len(Cur.st.registry) :
                        SameOperand(new.registry[i],
                                    IF i = ArgOf(Cur, 1) + 1 THEN Top(Cur.st)
                                    ELSE Cur.st.registry[i])
        /\ ( At({OP_LDR}) /\ ArgOf(Cur, 1) < Len(Cur.st.registry) ) =>
              LET new == frames'[Len(frames)].st
              IN  /\ status' = "running"
                  /\ SameOperands(new.stack,
                                  Append(Cur.st.stack,
                                         Cur.st.registry[ArgOf(Cur, 1) + 1]))
                  /\ SameOperands(new.registry, Cur.st.registry)
      ]_vars

\* STR 3 in a frame of two registers has failed with both Scalars still on
\* the stack.
C28_Witness ==
    /\ status = "err"
    /\ error = "OutOfRange"
    /\ frames[1].code = <<OP_IMMS, 0, OP_IMMS, 3, OP_STR, 3>>
    /\ Len(frames[1].st.registry) = MaxReg
    /\ frames[1].st.stack = <<OpScalar(Amt(0)), OpScalar(Amt(3))>>

\* The instructions whose argument is a depth below the top of the stack.
Positional ==
    Arith \cup {OP_LDD, OP_SWAP, OP_MIN, OP_MAX, OP_LUNN, OP_ZEROS, OP_ONES}

\* C29: a step that executes ldd, swap, add, sub, mul, div, min, max, lunn,
\* zeros or ones with a pos that is no depth of the stack (pos >= depth)
\* fails with OutOfRange and leaves the stack as it was.
C29_PositionBeyondStackIsOutOfRange ==
    [][ ( /\ At(Positional)
          /\ ArgOf(Cur, 1) >= Len(Cur.st.stack) ) =>
            /\ status' = "err"
            /\ error' = "OutOfRange"
            /\ SameStack(frames'[Len(frames)].st, Cur.st)
      ]_vars

\* C30: a step that executes swap pos with pos a depth of the stack
\* (0 <= pos < depth) succeeds and exchanges the operand on top with the
\* operand at depth pos, every other slot as before, which for pos = 0
\* leaves the stack as it was; swap pos on the stack it leaves gives back
\* the stack there was.
C30_SwapExchangesAndUndoes ==
    [][ ( /\ At({OP_SWAP})
          /\ ArgOf(Cur, 1) < Len(Cur.st.stack) ) =>
            LET pos  == ArgOf(Cur, 1)
                old  == Cur.st
                new  == frames'[Len(frames)].st
                d    == Len(old.stack)
                back == swap(new, pos)
            IN  /\ status' = "running"
                /\ Len(new.stack) = d
                /\ \A i \in 1..d :
                      SameOperand(new.stack[i],
                                  IF i = d THEN old.stack[d - pos]
                                  ELSE IF i = d - pos THEN old.stack[d]
                                  ELSE old.stack[i])
                /\ back.res = "Ok"
                /\ SameStack(back.st, old)
      ]_vars

\* C31: where the code ends before the last argument word of the
\* instruction being decoded, the invocation fails with InvalidInstruction.
C31_TruncatedStreamIsInvalidInstruction ==
    [][ ( /\ Running /\ ~AtEnd
          /\ op_code_at(Cur) \in Opcodes
          /\ Underrun(Cur) )
        => (status' = "err" /\ error' = "InvalidInstruction") ]_vars

\* The instruction set the specification lists, by group.
SpecifiedOpcodes ==
    (10..14) \cup (20..23) \cup (30..35) \cup (40..46) \cup (50..55)
    \cup (60..61) \cup (70..72) \cup (80..83) \cup (90..94)

\* C32: a word in opcode position yields InvalidInstruction if and only if
\* it is not an opcode of the specified instruction set.
C32_DispatchTableIsClosed ==
    [][ (Running /\ ~AtEnd)
        => ( (status' = "err" /\ error' = "InvalidInstruction")
             <=> op_code_at(Cur) \notin SpecifiedOpcodes ) ]_vars

\* The limits on the depth of a Stack a deployment may configure that the
\* programs of the model can reach.
DepthLimits == 1..MaxArg

\* C33: the depth of the Stack of every frame stays within the configured
\* limit, whichever limit is configured.
C33_StackDepthIsBounded ==
    \E limit \in DepthLimits :
        \A i \in Frames : Len(frames[i].st.stack) <= limit

\* The running frame is at an ADD or SUB of two Scalars, the one at TOS and
\* the one at depth pos > 0.
AtScalarPair(ops) ==
    /\ At(ops)
    /\ ArgOf(Cur, 1) \in 1..(Len(Cur.st.stack) - 1)
    /\ PairKinds(ArgOf(Cur, 1)) = <<"Scalar", "Scalar">>

\* C34: checked_add(a, b) is Some(a + b) where a + b < 2^128 and None
\* otherwise, and checked_sub(a, b) is Some(a - b) where a >= b and None
\* otherwise; an ADD or SUB of two Scalars leaves that sum or difference at
\* TOS, or fails where there is none.
C34_CheckedAddSubAreComplete ==
    [][ AtScalarPair({OP_ADD, OP_SUB}) =>
        LET a    == Top(Cur.st).v
            b    == Below(ArgOf(Cur, 1)).v
            isAdd == op_code_at(Cur) = OP_ADD
            fits == IF isAdd THEN LLe(LAdd(a, b), U128Max) ELSE LLe(b, a)
            r    == IF isAdd THEN checked_add(a, b) ELSE checked_sub(a, b)
        IN  IF fits
            THEN LET c == IF isAdd THEN LAdd(a, b) ELSE LSub(a, b)
                 IN  /\ r = Some(c)
                     /\ status' = "running"
                     /\ Top(frames'[Len(frames')].st) = OpScalar(c)
            ELSE /\ r = NoneOpt
                 /\ status' = "err" ]_vars

\* An ADD has failed on MAX + 1, or a SUB on 0 - MAX.
C34_Witness ==
    /\ frames # << >>
    /\ Cur.code \in { <<OP_LDS, 3, OP_IMMS, 1, OP_ADD, 1>>,
                      <<OP_LDS, 3, OP_IMMS, 0, OP_SUB, 1>> }
    /\ status = "err"
    /\ Cur.pc = 4

\* C35: a div with pos > 0 on operands of shapes it accepts that divides
\* by zero, the Scalar or an element of the Vector at depth pos, fails with
\* an error code.
C35_DivisionByZeroIsAnError ==
    [][ ( /\ At({OP_DIV})
          /\ ArgOf(Cur, 1) \in 1..(Len(Cur.st.stack) - 1)
          /\ LET v1 == Top(Cur.st)
                 v2 == Below(ArgOf(Cur, 1))
             IN  \/ /\ v2.kind = "Scalar"
                    /\ v1.kind \in {"Scalar", "Vector"}
                    /\ v1.v # << >> \/ v1.kind = "Scalar"
                    /\ v2.v = ZERO
                 \/ /\ v2.kind = "Vector" /\ v1.kind = "Vector"
                    /\ Len(v1.v) = Len(v2.v)
                    /\ \E i \in 1..Len(v2.v) : v2.v[i] = ZERO )
        => (status' = "err" /\ error' \in ErrorCodes) ]_vars

\* C38: a B or FOLD reads the code under its key once, when the instruction
\* executes.  Where the key is missing the instruction fails with NotFound
\* and the caller's frame is as it was; the activation it starts runs the
\* code the store held at that moment; and every turn of the loop of a
\* FOLD runs the code of the turn before, whatever the store holds under
\* the key by then.
C38_CodeIsReadOncePerCall ==
    [][ /\ ( /\ At(OpsCall)
             /\ Len(frames) < MaxCallDepth
             /\ load_labels(vio, ArgOf(Cur, 1)).res # "Ok" )
           => /\ status' = "err"
              /\ error' = "NotFound"
              /\ frames' = frames
        /\ ( /\ At(OpsCall)
             /\ Len(frames') = Len(frames) + 1 )
           => /\ frames'[Len(frames')].code = vio.labels[ArgOf(Cur, 1)]
              /\ vio' = vio
        /\ ( /\ Running /\ AtEnd
             /\ Cur.kind = "FOLD"
             /\ Cur.iter < Len(Cur.source)
             /\ status' = "running" )
           => /\ Len(frames') = Len(frames)
              /\ frames'[Len(frames')].code = Cur.code
              /\ frames'[Len(frames')].iter = Cur.iter + 1
              /\ vio' = vio ]_vars

\* A FOLD is in its third turn over the code it loaded, after the first
\* turn stored other code under the key of the FOLD.
C38_Witness ==
    /\ Running
    /\ Len(frames) = 2
    /\ Cur.kind = "FOLD"
    /\ Cur.iter = 3
    /\ Cur.code = PrgRewrites
    /\ frames[1].code[frames[1].pc - 3] = 19
    /\ vio.labels[19] # Cur.code

\* The step begins a turn of the loop of a FOLD, a new activation of
\* execute_with_stack.
NewTurn ==
    /\ AtEnd
    /\ Cur.kind = "FOLD"
    /\ Cur.iter < Len(Cur.source)

\* No word of the code is B or FOLD.
NoCalls(code) == \A i \in 1..Len(code) : code[i] \notin OpsCall

\* C39: within an activation the pc never decreases, an instruction that
\* is dispatched and succeeds moves it by one word and its argument words,
\* and a program without B and FOLD ends by returning Ok or an error code.
C39_PcOnlyMovesForward ==
    [][ Running =>
        /\ \A i \in 1..Len(frames) :
              (i <= Len(frames') /\ ~(i = Len(frames) /\ NewTurn))
              => frames'[i].pc >= frames[i].pc
        /\ (At(Opcodes) /\ status' = "running" /\ Len(frames') >= Len(frames))
           => frames'[Len(frames)].pc = Cur.pc + 1 + NumArgs(op_code_at(Cur))
        /\ (Len(frames) = 1 /\ NoCalls(Cur.code))
           => /\ status' \in {"running", "ok", "err"}
              /\ status' = "err" => error' \in ErrorCodes ]_vars

\* C36: a get(id) by the owner, where the contract holds data that is not
\* empty under id, returns exactly those bytes.
C36_StoredDataIsReadBack ==
    [][ ( /\ reply'.call = "get"
          /\ devil.owner # 0
          /\ reply'.sender = devil.owner
          /\ getter(devil.vectors, reply'.id, << >>) # << >> )
        => ( /\ reply'.res = "Ok"
             /\ reply'.v = getter(devil.vectors, reply'.id, << >>) ) ]_vars

\* C37: over the storage an executed program leaves and for every key k,
\* a load_vector(k) that follows a store_vector(k, v) returns Ok(v), for
\* the empty Vector too, a load_labels(k) that follows a store_labels(k, l)
\* returns Ok(l), and a load_scalar of a key never stored returns zero.
C37_AdapterRoundTrips ==
    (reply.call = "execute" /\ reply.res = "Ok") =>
    \A k \in 1..MaxKey :
        /\ \A v \in DevilVectors :
              Devil_load_vector(Devil_store_vector(devil, k, v), k) = Loaded(v)
        /\ \A l \in DevilWords :
              Devil_load_labels(Devil_store_labels(devil, k, l), k) = Loaded(l)
        /\ k \notin DOMAIN devil.scalars => Devil_load_scalar(devil, k) = Loaded(ZERO)

\* What an order has neither spent nor engaged, where it has not spent and
\* engaged more than it holds.
Remaining(o) ==
    LSub(o.collateral_amount, LAdd(o.collateral_spent, o.collateral_engaged))

\* C40: an order never has more collateral spent and engaged than it
\* holds; an engage returns the smaller of what was asked for and what
\* remains and engages that much; a fill takes its collateral from the
\* engaged and adds it to the spent, leaving their sum; and a call that
\* aborts leaves the order as it was.
C40_OrderAccounting ==
    /\ [](LLe(LAdd(order.collateral_spent, order.collateral_engaged),
              order.collateral_amount))
    /\ [][ /\ (reply'.call = "engage" /\ reply'.res = "Ok")
              => /\ reply'.v = IF LLe(reply'.data, Remaining(order))
                               THEN reply'.data ELSE Remaining(order)
                 /\ order' = [order EXCEPT !.collateral_engaged =
                                               LAdd(@, reply'.v)]
           /\ (reply'.call = "fill" /\ reply'.res = "Ok")
              => /\ LLe(reply'.data, order.collateral_engaged)
                 /\ order'.collateral_engaged =
                        LSub(order.collateral_engaged, reply'.data)
                 /\ order'.collateral_spent =
                        LAdd(order.collateral_spent, reply'.data)
                 /\ LAdd(order'.collateral_spent, order'.collateral_engaged)
                        = LAdd(order.collateral_spent, order.collateral_engaged)
                 /\ order'.collateral_amount = order.collateral_amount
           /\ (reply'.call = "submit_new" /\ reply'.res = "Ok")
              => order' = [order EXCEPT !.collateral_amount =
                                            LAdd(@, reply'.data)]
           /\ reply'.res = "Panic" => order' = order ]_vars

\* An order that has spent collateral was asked to engage more than
\* remained of it, and engaged what remained.
C40_Witness ==
    /\ reply.call = "engage"
    /\ reply.res = "Ok"
    /\ reply.v # reply.data
    /\ reply.v # ZERO
    /\ order.collateral_spent # ZERO
    /\ order.collateral_engaged # reply.v

====
